---- MODULE Spec2Model ----
(***************************************************************************)
(* Model of the map-interaction controller of raidfr2/triqi                *)
(* (MapContainer, src/unnamed/part_000) and of the route-search boundary   *)
(* it talks to (src/server/routes.ts).                                     *)
(*                                                                         *)
(* React state hooks are the variables that carry the hooks' names.  A     *)
(* handler reads the values its closure captured: handlers created by the  *)
(* render (buttons, inputs) read the committed state; the picking click    *)
(* handler reads the state of the render whose mode-change effect bound    *)
(* it; the keydown handler reads the state of the first render; the        *)
(* continuation of a route search reads the state of the render in which   *)
(* the search was started.  A render is committed with the handler that    *)
(* caused it; the passive effect of a render whose clickMode changed runs  *)
(* later (RunEffect), and always before the next render is committed.      *)
(*                                                                         *)
(* The engine (Mapbox GL) is modelled at its boundary: an ordered style    *)
(* (layers, sources), the per-layer delegated listeners, the listeners of  *)
(* the map's click event, the markers added to the map, the canvas cursor. *)
(* Coordinates are integers in units of 10^-5 degree; texts produced by    *)
(* toFixed(4) are in units of 10^-4 degree.                                *)
(***************************************************************************)
EXTENDS Integers, Sequences, FiniteSets, TLC

\* ---------------------------------------------------------------- bounds
MaxRoutes == 2     \* longest response of the route-search boundary
MaxMarkers == 3    \* endpoint markers created during one mount
MaxHandlers == 3   \* delegated listener triples bound on the engine
MaxInFlight == 2   \* route searches awaiting their response
MaxStored == 2     \* markers created in the store

\* ----------------------------------------------------------- value domains
null == 0          \* useState<any>(null): no marker reference
NoCoords == [set |-> FALSE, lng |-> 0, lat |-> 0]
Coords(lng, lat) == [set |-> TRUE, lng |-> lng, lat |-> lat]

\* mapError: null, and the messages the view sets
NoError == ""
TokenRequired ==
    "Mapbox access token is required. Please set VITE_MAPBOX_ACCESS_TOKEN environment variable."
InitFailed == "Failed to initialize map"
EngineError == "Map error"

\* a camera or a viewport snapshot; the view the engine is constructed with
\* is also the initial value of mapInfo
View(zoom, lng, lat) == [zoom |-> zoom, center |-> [lat |-> lat, lng |-> lng]]
DefaultView == View(12, -63370, 3569760)

\* cameras the engine is moved to: zoomed in, zoomed in and panned
Views == { DefaultView, View(15, -63370, 3569760), View(15, -63000, 3570000) }

\* e.lngLat of a map click, in 10^-5 degree
ClickPoints ==
    { [lng |-> -63000, lat |-> 3570000],
      [lng |-> -63006, lat |-> 3569994] }

\* typed text and text written by a pick
Text(s) == [s |-> s, lat |-> 0, lng |-> 0]
TypedTexts == { Text(""), Text(" "), Text("A") }

\* route.bounds: { southwest: {lat, lng}, northeast: {lat, lng} }, optional
NoBounds ==
    [ present |-> FALSE, southwest |-> [lat |-> 0, lng |-> 0], northeast |-> [lat |-> 0, lng |-> 0] ]
Bounds(swLat, swLng, neLat, neLng) ==
    [ present |-> TRUE, southwest |-> [lat |-> swLat, lng |-> swLng],
      northeast |-> [lat |-> neLat, lng |-> neLng] ]

\* the bounds of the routes the search endpoint answers with
MockBounds == Bounds(3569000, -65000, 3570500, -62000)

\* a route of a response: geometry 0 = the route has no geometry field
RouteShapes ==
    { [geometry |-> 0, bounds |-> MockBounds],
      [geometry |-> 1, bounds |-> Bounds(3569500, -64000, 3570000, -63000)],
      [geometry |-> 2, bounds |-> NoBounds] }

RECURSIVE SeqsUpTo(_, _)
SeqsUpTo(S, n) ==
    IF n = 0 THEN { <<>> }
    ELSE LET shorter == SeqsUpTo(S, n - 1)
         IN  shorter \cup { Append(q, x) : q \in { r \in shorter : Len(r) = n - 1 }, x \in S }

Responses == SeqsUpTo(RouteShapes, MaxRoutes)

\* mockRoutes: two routes, both with bounds, neither with a geometry
mockRoutes ==
    << [geometry |-> 0, bounds |-> MockBounds], [geometry |-> 0, bounds |-> MockBounds] >>

\* ------------------------------------------------------------ pure helpers
\* Number.prototype.toFixed(4) on a value given in 10^-5: nearest multiple
\* of 10^-4, the sign handled apart
toFixed4(x) ==
    IF x < 0 THEN - ((( - x) + 5) \div 10) ELSE (x + 5) \div 10

\* the text with the two numbers in the order of e.lngLat
FormatLngLat(c) == [s |-> "latlng", lat |-> toFixed4(c.lng), lng |-> toFixed4(c.lat)]

\* `${coordinates.lat.toFixed(4)}, ${coordinates.lng.toFixed(4)}`
FormatLatLng(c) == [s |-> "latlng", lat |-> toFixed4(c.lat), lng |-> toFixed4(c.lng)]

\* String.prototype.trim
trim(t) == IF t.s = " " THEN Text("") ELSE t

\* a string is truthy when it is not empty
Truthy(t) == t.s # ""

\* no route layer: layer ids are the indexes 0, 1, ...
NoLayer == -1

\* `route-${routeIndex}` and `route-layer-${routeIndex}`: the id is the index
SourceId(routeIndex) == routeIndex
LayerId(routeIndex) == routeIndex

RECURSIVE SelectSeqNot(_, _)
SelectSeqNot(q, x) ==
    IF q = <<>> THEN <<>>
    ELSE IF Head(q) = x THEN SelectSeqNot(Tail(q), x)
         ELSE <<Head(q)>> \o SelectSeqNot(Tail(q), x)

Ids(q) == { q[i].id : i \in 1..Len(q) }
Count(q, x) == Cardinality({ i \in 1..Len(q) : q[i] = x })

\* a field of a JSON body: absent, a value of the column's type, or a value
\* of another type
Str(s) == [k |-> "value", v |-> s]
StrAbsent == [k |-> "absent", v |-> ""]
StrWrong == [k |-> "wrong", v |-> ""]
Num(n) == [k |-> "value", v |-> n]
NumAbsent == [k |-> "absent", v |-> 0]
NumWrong == [k |-> "wrong", v |-> 0]

MarkerBody(title, description, latitude, longitude, color) ==
    [ title |-> title, description |-> description, latitude |-> latitude,
      longitude |-> longitude, color |-> color ]

\* bodies of POST /api/markers; degrees are in units of 10^-7
PostBodies ==
    { MarkerBody(Str("Cafe"), StrAbsent, Num(356976000), Num(-6337000), StrAbsent),
      MarkerBody(Str("Cafe"), Str("open"), Num(356976123), Num(-6337000), Str("#ff0000")),
      MarkerBody(Str("Pole"), StrAbsent, Num(910000000), Num(1810000000), StrAbsent),
      MarkerBody(StrAbsent, Str("open"), Num(356976000), Num(-6337000), StrAbsent),
      MarkerBody(Str("Cafe"), StrAbsent, NumWrong, Num(-6337000), StrAbsent) }

\* bodies of PUT /api/markers/:id, each with one field
PutBodies ==
    { MarkerBody(Str("Bar"), StrAbsent, NumAbsent, NumAbsent, StrAbsent),
      MarkerBody(StrAbsent, StrAbsent, Num(910000000), NumAbsent, StrAbsent),
      MarkerBody(StrAbsent, StrAbsent, NumWrong, NumAbsent, StrAbsent) }

\* ids of requests: those handed out and one never handed out
RequestIds == 1..(MaxStored + 1)

\* a value of a `real` column as it is read back: the nearest IEEE-754 single,
\* printed with the fewest digits that identify it (35.6976123 is stored as
\* 35.69761276..., read back as 35.697613)
float4(x) ==
    CASE x = 356976123 -> 356976130
      [] x = 1799999900 -> 1799999800
      [] OTHER -> x

\* color: varchar("color", { length: 7 }).default("#3b82f6")
DefaultColor == "#3b82f6"

NoRow ==
    [ id |-> 0, title |-> "", description |-> StrAbsent, latitude |-> 0, longitude |-> 0,
      color |-> "", createdAt |-> 0 ]

\* res.status(...).json(...) / send()
Reply(status, error, details, marker, markerList, routes) ==
    [ status |-> status, error |-> error, details |-> details, marker |-> marker,
      markers |-> markerList, routes |-> routes ]
ReplyError(status, error, details) == Reply(status, error, details, NoRow, <<>>, <<>>)

\* no request has been answered yet
NoResponse == ReplyError(0, "", FALSE)

\* ------------------------------------------------------------------ state
VARIABLES
    mounted,              \* the mount effects have run
    map,                  \* map.current is an engine instance
    isLoading,
    mapError,             \* "" for null
    markersLoaded,
    fallbackShown,        \* createFallbackMap has replaced the container's content
    loaded,               \* the engine has fired 'load'
    markerRequests,       \* GET /api/markers requests issued
    showInfoPanel,
    showRoutePanel,
    startLocation, endLocation,
    routeResults,
    isLoadingRoute,
    activeRouteHandlers,
    clickMode,            \* "none" | "start" | "end"
    startCoords, endCoords,
    startMarker, endMarker,
    engineMarkers,        \* markers added to the map: [id, kind, lngLat]
    nextMarker,           \* identity of the next marker object created
    layers,               \* style.layers that the view added: [id, source]
    sources,              \* style.sources that the view added: [id, geometry]
    layerHandlers,        \* one layer id per click/mouseenter/mouseleave triple bound
    clickHandlers,        \* handleLocationClick closures bound to 'click': [fn, clickMode, startMarker, endMarker]
    cursor,               \* canvas.style.cursor
    effectPending,        \* the [clickMode] effect of the last render has not run yet
    cleanupFn,            \* the handleLocationClick the last effect's cleanup captured
    requests,             \* route searches awaiting their response: the closure of each
    lastSearch,           \* history: the body of the last successful search, emptied by a reset
    calls,                \* engine calls on route layers made by the last handler, in order
    fitRequests,          \* fitBounds calls made by the last search continuation: [box, padding]
    unmounted,            \* the view has been unmounted
    liveEngines,          \* engine instances constructed and not removed
    constructions,        \* engine instances constructed since the mount
    engineView,           \* the engine's camera: [zoom, center]
    mapInfo,              \* the viewport snapshot: [zoom, center]
    store,                \* the rows of the markers table
    nextId,               \* the next id gen_random_uuid() hands out
    now,                  \* the database clock
    response,             \* the last response of the server: [status, body]
    hovered,              \* the route layer the pointer has entered, NoLayer for none
    isLocating,
    geoRequests,          \* getCurrentPosition calls awaiting their callback
    flyRequests,          \* flyTo calls made by the last geolocation callback: [center, zoom]
    markers,              \* the markers hook: the rows of the last marker list
    markerFetches,        \* GET /api/markers requests awaiting their response
    staticMarkers,        \* markers that loadMarkers added to the map: [color, lngLat]
    resetInFlight         \* history: Escape or the clear button was used since the last
                          \* search was issued, while it awaited its response

vars ==
    << mounted, map, showRoutePanel, startLocation, endLocation, routeResults,
       isLoadingRoute, activeRouteHandlers, clickMode, startCoords, endCoords,
       startMarker, endMarker, engineMarkers, nextMarker, layers, sources,
       layerHandlers, clickHandlers, cursor, effectPending, cleanupFn, requests,
       lastSearch, calls, fitRequests, isLoading, mapError, markersLoaded, fallbackShown,
       loaded, markerRequests, showInfoPanel, unmounted, liveEngines, constructions,
       engineView, mapInfo, store, nextId, now, response, hovered, isLocating,
       geoRequests, flyRequests, markers, markerFetches, staticMarkers, resetInFlight >>

lifeVars == << unmounted, liveEngines, constructions >>
viewVars == << engineView, mapInfo >>
serverVars == << store, nextId, now, response >>
geoVars == << isLocating, geoRequests, flyRequests >>
listVars == << markers, markerFetches, staticMarkers >>
asyncVars == << hovered, geoVars, listVars, resetInFlight >>
initVars == << isLoading, mapError, markersLoaded, fallbackShown, loaded, markerRequests >>
hookVars ==
    << showRoutePanel, startLocation, endLocation, routeResults, isLoadingRoute,
       activeRouteHandlers, clickMode, startCoords, endCoords, startMarker, endMarker >>
markerVars == << engineMarkers, nextMarker >>
routeEngineVars == << layers, sources, layerHandlers, lastSearch >>
pickVars == << clickHandlers, cursor, effectPending, cleanupFn >>

\* the part of the engine and of the hooks that the route overlay code touches
RouteEngine ==
    [ layers |-> layers, sources |-> sources, layerHandlers |-> layerHandlers,
      activeRouteHandlers |-> activeRouteHandlers, calls |-> <<>> ]

Call(op, id, flag) == [op |-> op, id |-> id, flag |-> flag]

\* map.getLayer(id) / map.getSource(id)
getLayer(e, id) == id \in Ids(e.layers)
getSource(e, id) == id \in Ids(e.sources)

\* activeRouteHandlers.forEach: off('click' | 'mouseenter' | 'mouseleave', layerId)
\* of every tracked layer that still exists; the call is taken to do what the
\* code calls it for, detaching the listeners bound on that layer id
RECURSIVE DetachRouteHandlers(_, _)
DetachRouteHandlers(e, tracked) ==
    IF tracked = <<>> THEN e
    ELSE LET layerId == Head(tracked)
             e1 == IF getLayer(e, layerId)
                   THEN [e EXCEPT !.layerHandlers = SelectSeqNot(@, layerId),
                                  !.calls = Append(@, Call("off", layerId, FALSE))]
                   ELSE e
         IN  DetachRouteHandlers(e1, Tail(tracked))

\* style.layers.forEach: removeLayer of every 'route-layer-' layer; the call
\* records whether listeners of the layer were still bound
RECURSIVE RemoveRouteLayers(_, _)
RemoveRouteLayers(e, styleLayers) ==
    IF styleLayers = <<>> THEN e
    ELSE LET id == Head(styleLayers).id
             e1 == IF getLayer(e, id)
                   THEN [e EXCEPT !.layers = SelectSeq(@, LAMBDA l : l.id # id),
                                  !.calls = Append(@, Call("removeLayer", id, Count(e.layerHandlers, id) > 0))]
                   ELSE e
         IN  RemoveRouteLayers(e1, Tail(styleLayers))

\* Object.keys(style.sources).forEach: removeSource of every 'route-' source;
\* the engine refuses to remove a source a layer still uses; the call records
\* whether such a layer existed
RECURSIVE RemoveRouteSources(_, _)
RemoveRouteSources(e, styleSources) ==
    IF styleSources = <<>> THEN e
    ELSE LET id == Head(styleSources).id
             used == \E i \in 1..Len(e.layers) : e.layers[i].source = id
             e1 == IF getSource(e, id)
                   THEN [e EXCEPT !.sources = IF used THEN @ ELSE SelectSeq(@, LAMBDA x : x.id # id),
                                  !.calls = Append(@, Call("removeSource", id, used))]
                   ELSE e
         IN  RemoveRouteSources(e1, Tail(styleSources))

\* clearRouteLayersFromMap, run by a closure that captured `tracked` as
\* activeRouteHandlers
clearRouteLayersFromMap(e, live, tracked) ==
    IF ~live THEN e
    ELSE LET e1 == DetachRouteHandlers(e, tracked)
             e2 == [e1 EXCEPT !.activeRouteHandlers = <<>>]
             e3 == RemoveRouteLayers(e2, e.layers)
         IN  RemoveRouteSources(e3, e.sources)

\* the body of routes.forEach without the getSource / getLayer checks
AddRouteOverlayUnchecked(e, route, routeIndex) ==
    IF route.geometry = 0 THEN e
    ELSE [e EXCEPT !.sources = Append(@, [id |-> SourceId(routeIndex), geometry |-> route.geometry]),
                   !.layers = Append(@, [id |-> LayerId(routeIndex), source |-> SourceId(routeIndex)]),
                   !.layerHandlers = Append(@, LayerId(routeIndex)),
                   !.activeRouteHandlers = Append(@, LayerId(routeIndex)),
                   !.calls = @ \o << Call("addSource", SourceId(routeIndex), FALSE),
                                     Call("addLayer", LayerId(routeIndex), FALSE) >>]

\* the body of routes.forEach in displayRoutesOnMap for one route
AddRouteOverlay(e, route, routeIndex) ==
    IF route.geometry = 0 THEN e
    ELSE LET sourceId == SourceId(routeIndex)
             layerId == LayerId(routeIndex)
             e1 == IF ~getSource(e, sourceId)
                   THEN [e EXCEPT !.sources = Append(@, [id |-> sourceId, geometry |-> route.geometry]),
                                  !.calls = Append(@, Call("addSource", sourceId, FALSE))]
                   ELSE e
         IN  IF ~getLayer(e1, layerId)
             THEN [e1 EXCEPT !.layers = Append(@, [id |-> layerId, source |-> sourceId]),
                             !.layerHandlers = Append(@, layerId),
                             !.activeRouteHandlers = Append(@, layerId),
                             !.calls = Append(@, Call("addLayer", layerId, FALSE))]
             ELSE e1

RECURSIVE AddRouteOverlays(_, _, _)
AddRouteOverlays(e, routes, routeIndex) ==
    IF routeIndex >= Len(routes) THEN e
    ELSE AddRouteOverlays(AddRouteOverlay(e, routes[routeIndex + 1], routeIndex),
                          routes, routeIndex + 1)

\* displayRoutesOnMap(routes), run by a closure that captured `tracked`
displayRoutesOnMap(e, live, tracked, routes) ==
    IF ~live THEN e
    ELSE AddRouteOverlays(clearRouteLayersFromMap(e, live, tracked), routes, 0)

\* ------------------------------------------------------- endpoint markers
GreenHex == "#10b981"
RedHex == "#ef4444"

\* the hooks and the engine markers a picking click works on
PickState ==
    [ clickMode |-> clickMode,
      startCoords |-> startCoords, startLocation |-> startLocation, startMarker |-> startMarker,
      endCoords |-> endCoords, endLocation |-> endLocation, endMarker |-> endMarker,
      engineMarkers |-> engineMarkers, nextMarker |-> nextMarker ]

\* marker.remove()
RemoveMarker(ms, ref) == { m \in ms : m.id # ref }

\* addStartMarker(coordinates), run by a closure that captured `captured` as startMarker
addStartMarker(m, live, captured, coordinates) ==
    IF ~live THEN m
    ELSE [m EXCEPT !.engineMarkers =
                       RemoveMarker(@, captured)
                           \cup { [id |-> m.nextMarker, color |-> GreenHex, lngLat |-> coordinates] },
                   !.nextMarker = @ + 1,
                   !.startMarker = m.nextMarker]

\* an addEndMarker that does not keep the reference to the marker
addEndMarkerUntracked(m, live, captured, coordinates) ==
    IF ~live THEN m
    ELSE [m EXCEPT !.engineMarkers =
                       RemoveMarker(@, captured)
                           \cup { [id |-> m.nextMarker, color |-> RedHex, lngLat |-> coordinates] },
                   !.nextMarker = @ + 1]

\* addEndMarker(coordinates), run by a closure that captured `captured` as endMarker
addEndMarker(m, live, captured, coordinates) ==
    IF ~live THEN m
    ELSE [m EXCEPT !.engineMarkers =
                       RemoveMarker(@, captured)
                           \cup { [id |-> m.nextMarker, color |-> RedHex, lngLat |-> coordinates] },
                   !.nextMarker = @ + 1,
                   !.endMarker = m.nextMarker]

\* a clear that resets an endpoint's selection only when it holds no marker
clearLocationMarkersElse(m) ==
    LET m1 == IF m.startMarker # null
              THEN [m EXCEPT !.engineMarkers = RemoveMarker(@, m.startMarker),
                             !.startMarker = null]
              ELSE [m EXCEPT !.startCoords = NoCoords, !.startLocation = Text("")]
    IN  IF m1.endMarker # null
        THEN [m1 EXCEPT !.engineMarkers = RemoveMarker(@, m1.endMarker),
                        !.endMarker = null]
        ELSE [m1 EXCEPT !.endCoords = NoCoords, !.endLocation = Text("")]

\* clearLocationMarkers, run by a render closure (it reads the committed state)
clearLocationMarkers(m) ==
    [m EXCEPT !.engineMarkers = RemoveMarker(RemoveMarker(@, m.startMarker), m.endMarker),
              !.startMarker = null, !.endMarker = null,
              !.startCoords = NoCoords, !.endCoords = NoCoords,
              !.startLocation = Text(""), !.endLocation = Text("")]

\* handleLocationClick(e) of the closure h = [fn, clickMode, startMarker, endMarker]
handleLocationClick(m, live, h, lngLat) ==
    IF h.clickMode = "start"
    THEN LET m1 == [m EXCEPT !.startCoords = Coords(lngLat.lng, lngLat.lat),
                             !.startLocation = FormatLatLng(lngLat)]
             m2 == addStartMarker(m1, live, h.startMarker, lngLat)
         IN  [m2 EXCEPT !.clickMode = "none"]
    ELSE IF h.clickMode = "end"
    THEN LET m1 == [m EXCEPT !.endCoords = Coords(lngLat.lng, lngLat.lat),
                             !.endLocation = FormatLatLng(lngLat)]
             m2 == addEndMarker(m1, live, h.endMarker, lngLat)
         IN  [m2 EXCEPT !.clickMode = "none"]
    ELSE m

\* the engine fires 'click': every bound listener runs, in the order bound
RECURSIVE FireClick(_, _, _, _)
FireClick(m, live, listeners, lngLat) ==
    IF listeners = <<>> THEN m
    ELSE FireClick(handleLocationClick(m, live, Head(listeners), lngLat),
                   live, Tail(listeners), lngLat)

\* ------------------------------------------------- the [clickMode] effect
PickBinding ==
    [ clickHandlers |-> clickHandlers, cursor |-> cursor, cleanupFn |-> cleanupFn ]

\* an off that leaves the listener bound
offClickKeeps(listeners, fn) == listeners

\* map.off('click', fn)
offClick(listeners, fn) == SelectSeq(listeners, LAMBDA h : h.fn # fn)

\* the identity of the handleLocationClick of a new render: a function object
\* no listener list and no cleanup holds yet
FreshFn(b) ==
    CHOOSE n \in 1..(Len(b.clickHandlers) + 2) :
        /\ n # b.cleanupFn
        /\ \A i \in 1..Len(b.clickHandlers) : b.clickHandlers[i].fn # n
        /\ \A k \in 1..(n - 1) :
              k = b.cleanupFn \/ \E i \in 1..Len(b.clickHandlers) : b.clickHandlers[i].fn = k

\* an effect that returns no cleanup
EffectCleanupMissing(b, live) == b

\* the cleanup the previous run of the effect returned
EffectCleanup(b, live) ==
    IF live THEN [b EXCEPT !.clickHandlers = offClick(@, b.cleanupFn)] ELSE b

\* an effect that binds the listener for the start endpoint only
EffectBodyStartOnly(b, live, mode, sm, em) ==
    LET fn == FreshFn(b)
        handler == [fn |-> fn, clickMode |-> mode, startMarker |-> sm, endMarker |-> em]
    IN  IF live
        THEN [b EXCEPT !.cursor = IF mode = "start" \/ mode = "end" THEN "crosshair" ELSE "",
                       !.clickHandlers = IF mode = "start" THEN Append(offClick(@, fn), handler)
                                         ELSE offClick(@, fn),
                       !.cleanupFn = fn]
        ELSE [b EXCEPT !.cleanupFn = fn]

\* the body of the effect, in the render whose state is (mode, sm, em)
EffectBody(b, live, mode, sm, em) ==
    LET fn == FreshFn(b)
        picking == mode = "start" \/ mode = "end"
        handler == [fn |-> fn, clickMode |-> mode, startMarker |-> sm, endMarker |-> em]
    IN  IF live
        THEN [b EXCEPT !.cursor = IF picking THEN "crosshair" ELSE "",
                       !.clickHandlers = IF picking THEN Append(offClick(@, fn), handler)
                                         ELSE offClick(@, fn),
                       !.cleanupFn = fn]
        ELSE [b EXCEPT !.cleanupFn = fn]

\* React runs the cleanup of the previous run, then the effect
useEffectClickMode(b, live, mode, sm, em) ==
    EffectBody(EffectCleanup(b, live), live, mode, sm, em)

\* pending passive effects are flushed before the next render is committed
FlushEffect ==
    IF effectPending
    THEN useEffectClickMode(PickBinding, map, clickMode, startMarker, endMarker)
    ELSE PickBinding

\* ---------------------------------------------------------------- actions
Init ==
    /\ mounted = FALSE
    /\ map = FALSE
    /\ showRoutePanel = FALSE
    /\ startLocation = Text("")
    /\ endLocation = Text("")
    /\ routeResults = <<>>
    /\ isLoadingRoute = FALSE
    /\ activeRouteHandlers = <<>>
    /\ clickMode = "none"
    /\ startCoords = NoCoords
    /\ endCoords = NoCoords
    /\ startMarker = null
    /\ endMarker = null
    /\ engineMarkers = {}
    /\ nextMarker = 1
    /\ layers = <<>>
    /\ sources = <<>>
    /\ layerHandlers = <<>>
    /\ clickHandlers = <<>>
    /\ cursor = ""
    /\ effectPending = FALSE
    /\ cleanupFn = 0
    /\ requests = <<>>
    /\ lastSearch = <<>>
    /\ calls = <<>>
    /\ fitRequests = <<>>
    /\ isLoading = TRUE
    /\ mapError = NoError
    /\ markersLoaded = FALSE
    /\ fallbackShown = FALSE
    /\ loaded = FALSE
    /\ markerRequests = 0
    /\ showInfoPanel = FALSE
    /\ unmounted = FALSE
    /\ liveEngines = 0
    /\ constructions = 0
    /\ engineView = DefaultView
    /\ mapInfo = DefaultView
    /\ store = {}
    /\ nextId = 1
    /\ now = 1
    /\ response = NoResponse
    /\ hovered = NoLayer
    /\ isLocating = FALSE
    /\ geoRequests = 0
    /\ flyRequests = <<>>
    /\ markers = <<>>
    /\ markerFetches = 0
    /\ staticMarkers = <<>>
    /\ resetInFlight = FALSE

SetPickBinding(b) ==
    /\ clickHandlers' = b.clickHandlers
    /\ cursor' = b.cursor
    /\ cleanupFn' = b.cleanupFn

SetPickState(m) ==
    /\ clickMode' = m.clickMode
    /\ startCoords' = m.startCoords
    /\ startLocation' = m.startLocation
    /\ startMarker' = m.startMarker
    /\ endCoords' = m.endCoords
    /\ endLocation' = m.endLocation
    /\ endMarker' = m.endMarker
    /\ engineMarkers' = m.engineMarkers
    /\ nextMarker' = m.nextMarker

SetRouteEngine(e) ==
    /\ layers' = e.layers
    /\ sources' = e.sources
    /\ layerHandlers' = e.layerHandlers
    /\ activeRouteHandlers' = e.activeRouteHandlers
    /\ calls' = e.calls

\* the body of the initialisation effect: the WebGL probe, the access token,
\* the engine's constructor (constructs = it does not throw)
InitializeMap(s, webgl, accessToken, constructs) ==
    IF s.map THEN s
    ELSE IF ~webgl
    THEN [s EXCEPT !.mapError = NoError, !.isLoading = FALSE,
                   !.fallbackShown = TRUE, !.mapInfo = DefaultView,
                   !.markersLoaded = TRUE]
    ELSE IF ~accessToken
    THEN [s EXCEPT !.mapError = TokenRequired, !.isLoading = FALSE]
    ELSE IF ~constructs
    THEN [s EXCEPT !.mapError = InitFailed, !.isLoading = FALSE]
    ELSE [s EXCEPT !.map = TRUE, !.engineView = DefaultView,
                   !.liveEngines = @ + 1, !.constructions = @ + 1]

InitState ==
    [ map |-> map, mapError |-> mapError, isLoading |-> isLoading,
      fallbackShown |-> fallbackShown, markersLoaded |-> markersLoaded,
      mapInfo |-> mapInfo, engineView |-> engineView,
      liveEngines |-> liveEngines, constructions |-> constructions ]

\* a cleanup that drops the handle without removing the engine
InitCleanupKeepsEngine(s) ==
    IF s.map THEN [s EXCEPT !.map = FALSE] ELSE s

\* the cleanup of the initialisation effect: map.current.remove(), map.current = null
InitCleanup(s) ==
    IF s.map THEN [s EXCEPT !.liveEngines = @ - 1, !.map = FALSE] ELSE s

\* a snapshot that takes the zoom only
updateMapInfoZoomOnly(info, live, camera) ==
    IF live THEN [info EXCEPT !.zoom = camera.zoom] ELSE info

\* updateMapInfo: setMapInfo({ zoom: getZoom(), center: getCenter() })
updateMapInfo(info, live, camera) ==
    IF live THEN [zoom |-> camera.zoom, center |-> camera.center] ELSE info

\* the effects of the first render: the initialisation effect, then the
\* [clickMode] effect for clickMode = 'none', then the keydown listener is
\* registered
Mount(webgl, accessToken, constructs) ==
    /\ ~mounted
    /\ ~unmounted
    /\ mounted' = TRUE
    /\ LET s == InitializeMap(InitState, webgl, accessToken, constructs)
       IN  /\ map' = s.map
           /\ mapError' = s.mapError
           /\ isLoading' = s.isLoading
           /\ fallbackShown' = s.fallbackShown
           /\ markersLoaded' = s.markersLoaded
           /\ mapInfo' = s.mapInfo
           /\ engineView' = s.engineView
           /\ liveEngines' = s.liveEngines
           /\ constructions' = s.constructions
    /\ SetPickBinding(EffectBody(PickBinding, map', clickMode, startMarker, endMarker))
    /\ UNCHANGED << hookVars, markerVars, routeEngineVars, effectPending, requests, calls,
                    loaded, markerRequests, showInfoPanel, fitRequests, unmounted,
                    serverVars, asyncVars >>

\* the view is unmounted: the cleanups of the effects run in the order of
\* the effects; removing the engine takes its style, listeners and markers
\* with it
Unmount ==
    /\ mounted
    /\ mounted' = FALSE
    /\ unmounted' = TRUE
    /\ LET s == InitCleanup(InitState)
       IN  /\ map' = s.map
           /\ liveEngines' = s.liveEngines
    /\ layers' = <<>>
    /\ sources' = <<>>
    /\ layerHandlers' = <<>>
    /\ clickHandlers' = <<>>
    /\ engineMarkers' = {}
    /\ staticMarkers' = <<>>
    /\ hovered' = NoLayer
    /\ cursor' = ""
    /\ effectPending' = FALSE
    /\ UNCHANGED << hookVars, nextMarker, lastSearch, cleanupFn, requests, calls, initVars,
                    showInfoPanel, fitRequests, constructions, viewVars, serverVars,
                    geoVars, markers, markerFetches, resetInFlight >>

\* map.on('load'): setIsLoading(false), loadMarkers() up to its await
MapLoad ==
    /\ mounted
    /\ map
    /\ ~loaded
    /\ loaded' = TRUE
    /\ isLoading' = FALSE
    /\ mapInfo' = updateMapInfo(mapInfo, map, engineView)
    /\ markerRequests' = markerRequests + 1
    /\ markerFetches' = markerFetches + 1
    /\ SetPickBinding(FlushEffect)
    /\ effectPending' = FALSE
    /\ UNCHANGED << mounted, map, hookVars, markerVars, routeEngineVars, requests, calls,
                    mapError, markersLoaded, fallbackShown, showInfoPanel, fitRequests,
                    lifeVars, engineView, serverVars, hovered, geoVars, markers,
                    staticMarkers, resetInFlight >>

\* the engine's camera changes: a gesture, or a frame of flyTo or fitBounds
CameraMoves(view) ==
    /\ mounted
    /\ map
    /\ view # engineView
    /\ engineView' = view
    /\ UNCHANGED << mounted, map, hookVars, markerVars, routeEngineVars, pickVars, requests,
                    calls, initVars, showInfoPanel, fitRequests, lifeVars, mapInfo,
                    serverVars, asyncVars >>

\* map.on('moveend', updateMapInfo)
MoveEnd ==
    /\ mounted
    /\ map
    /\ mapInfo' = updateMapInfo(mapInfo, map, engineView)
    /\ SetPickBinding(FlushEffect)
    /\ effectPending' = FALSE
    /\ UNCHANGED << mounted, map, hookVars, markerVars, routeEngineVars, requests, calls,
                    initVars, showInfoPanel, fitRequests, lifeVars, engineView, serverVars,
                    asyncVars >>

\* map.on('zoomend', updateMapInfo)
ZoomEnd ==
    /\ mounted
    /\ map
    /\ mapInfo' = updateMapInfo(mapInfo, map, engineView)
    /\ SetPickBinding(FlushEffect)
    /\ effectPending' = FALSE
    /\ UNCHANGED << mounted, map, hookVars, markerVars, routeEngineVars, requests, calls,
                    initVars, showInfoPanel, fitRequests, lifeVars, engineView, serverVars,
                    asyncVars >>

\* resetView, from the button or the 'r' key: flyTo the initial camera
ResetView ==
    /\ mounted
    /\ ~effectPending
    /\ engineView' = IF map THEN DefaultView ELSE engineView
    /\ UNCHANGED << mounted, map, hookVars, markerVars, routeEngineVars, pickVars, requests,
                    calls, initVars, showInfoPanel, fitRequests, lifeVars, mapInfo,
                    serverVars, asyncVars >>

\* map.on('error')
MapErrorEvent ==
    /\ mounted
    /\ map
    /\ mapError' = EngineError
    /\ isLoading' = FALSE
    /\ SetPickBinding(FlushEffect)
    /\ effectPending' = FALSE
    /\ UNCHANGED << mounted, map, hookVars, markerVars, routeEngineVars, requests, calls,
                    markersLoaded, fallbackShown, loaded, markerRequests, showInfoPanel,
                    fitRequests, lifeVars, viewVars, serverVars, asyncVars >>

\* the "Info" button and the 'i' key: setShowInfoPanel(prev => !prev)
ToggleInfoPanel ==
    /\ mounted
    /\ ~effectPending
    /\ showInfoPanel' = ~showInfoPanel
    /\ UNCHANGED << mounted, map, hookVars, markerVars, routeEngineVars, pickVars, requests,
                    calls, initVars, fitRequests, lifeVars, viewVars, serverVars,
                    asyncVars >>

\* the passive effect scheduled by the last render runs
RunEffect ==
    /\ mounted
    /\ effectPending
    /\ SetPickBinding(FlushEffect)
    /\ effectPending' = FALSE
    /\ UNCHANGED << mounted, map, hookVars, markerVars, routeEngineVars, requests, calls,
                    initVars, showInfoPanel, fitRequests, lifeVars, viewVars, serverVars,
                    asyncVars >>

\* header button "Bus Routes"
ToggleRoutePanel ==
    /\ mounted
    /\ ~effectPending
    /\ showRoutePanel' = ~showRoutePanel
    /\ UNCHANGED << mounted, map, startLocation, endLocation, routeResults, isLoadingRoute,
                    activeRouteHandlers, clickMode, startCoords, endCoords, startMarker,
                    endMarker, markerVars, routeEngineVars, pickVars, requests, calls,
                    initVars, showInfoPanel, fitRequests, lifeVars, viewVars, serverVars,
                    asyncVars >>

\* a press of 'Set on map' never leaves the endpoint armed
TogglePickOneShot(mode, endpoint) == endpoint

\* clickMode === endpoint ? 'none' : endpoint
TogglePick(mode, endpoint) == IF mode = endpoint THEN "none" ELSE endpoint

\* 'Set on map' of the start endpoint: setClickMode(clickMode === 'start' ? 'none' : 'start')
ToggleStartPick ==
    /\ mounted
    /\ showRoutePanel
    /\ ~effectPending
    /\ clickMode' = TogglePick(clickMode, "start")
    /\ effectPending' = (clickMode' # clickMode)
    /\ UNCHANGED << mounted, map, showRoutePanel, startLocation, endLocation, routeResults,
                    isLoadingRoute, activeRouteHandlers, startCoords, endCoords, startMarker,
                    endMarker, markerVars, routeEngineVars, clickHandlers, cursor, cleanupFn,
                    requests, calls, initVars, showInfoPanel, fitRequests,
                    lifeVars, viewVars, serverVars, asyncVars >>

\* 'Set on map' of the end endpoint: setClickMode(clickMode === 'end' ? 'none' : 'end')
ToggleEndPick ==
    /\ mounted
    /\ showRoutePanel
    /\ ~effectPending
    /\ clickMode' = TogglePick(clickMode, "end")
    /\ effectPending' = (clickMode' # clickMode)
    /\ UNCHANGED << mounted, map, showRoutePanel, startLocation, endLocation, routeResults,
                    isLoadingRoute, activeRouteHandlers, startCoords, endCoords, startMarker,
                    endMarker, markerVars, routeEngineVars, clickHandlers, cursor, cleanupFn,
                    requests, calls, initVars, showInfoPanel, fitRequests,
                    lifeVars, viewVars, serverVars, asyncVars >>

\* the start input's onChange
EditStartLocation(value) ==
    /\ mounted
    /\ showRoutePanel
    /\ ~effectPending
    /\ value # startLocation
    /\ startLocation' = value
    /\ UNCHANGED << mounted, map, showRoutePanel, endLocation, routeResults, isLoadingRoute,
                    activeRouteHandlers, clickMode, startCoords, endCoords, startMarker,
                    endMarker, markerVars, routeEngineVars, pickVars, requests, calls,
                    initVars, showInfoPanel, fitRequests, lifeVars, viewVars, serverVars,
                    asyncVars >>

\* the end input's onChange
EditEndLocation(value) ==
    /\ mounted
    /\ showRoutePanel
    /\ ~effectPending
    /\ value # endLocation
    /\ endLocation' = value
    /\ UNCHANGED << mounted, map, showRoutePanel, startLocation, routeResults, isLoadingRoute,
                    activeRouteHandlers, clickMode, startCoords, endCoords, startMarker,
                    endMarker, markerVars, routeEngineVars, pickVars, requests, calls,
                    initVars, showInfoPanel, fitRequests, lifeVars, viewVars, serverVars,
                    asyncVars >>

\* the engine delivers a click at lngLat to the listeners of 'click'
MapClick(lngLat) ==
    /\ mounted
    /\ map
    /\ clickHandlers # <<>>
    /\ nextMarker + Len(clickHandlers) - 1 <= MaxMarkers
    /\ LET m == FireClick(PickState, map, clickHandlers, lngLat)
       IN  /\ SetPickState(m)
           /\ SetPickBinding(FlushEffect)
           /\ effectPending' = (m.clickMode # clickMode)
    /\ UNCHANGED << mounted, map, showRoutePanel, routeResults, isLoadingRoute,
                    activeRouteHandlers, routeEngineVars, requests, calls,
                    initVars, showInfoPanel, fitRequests, lifeVars, viewVars, serverVars,
                    asyncVars >>

\* the hooks a search reads and writes, and the requests in flight
SearchState ==
    [ startLocation |-> startLocation, endLocation |-> endLocation,
      isLoadingRoute |-> isLoadingRoute, routeResults |-> routeResults,
      activeRouteHandlers |-> activeRouteHandlers, requests |-> requests ]

\* a validation that tests the texts as typed, not trimmed
searchBusRoutesUntrimmed(s) ==
    IF ~Truthy(s.startLocation) \/ ~Truthy(s.endLocation)
    THEN s
    ELSE [s EXCEPT !.isLoadingRoute = TRUE,
                   !.routeResults = <<>>,
                   !.requests = Append(@, [activeRouteHandlers |-> s.activeRouteHandlers,
                                           routeResults |-> s.routeResults])]

\* searchBusRoutes up to its await: the validation, then the POST; the
\* request carries the state its continuation will read
searchBusRoutes(s) ==
    IF ~Truthy(trim(s.startLocation)) \/ ~Truthy(trim(s.endLocation))
    THEN s
    ELSE [s EXCEPT !.isLoadingRoute = TRUE,
                   !.routeResults = <<>>,
                   !.requests = Append(@, [activeRouteHandlers |-> s.activeRouteHandlers,
                                           routeResults |-> s.routeResults])]

\* a button that is disabled only while an endpoint text is blank
SearchDisabledWhileBlank(s) ==
    ~Truthy(trim(s.startLocation)) \/ ~Truthy(trim(s.endLocation))

\* the `disabled` attribute of "Find Routes"
SearchDisabled(s) ==
    s.isLoadingRoute \/ ~Truthy(trim(s.startLocation)) \/ ~Truthy(trim(s.endLocation))

\* "Find Routes": onClick={searchBusRoutes} of a button that is not disabled
SearchClick ==
    /\ mounted
    /\ showRoutePanel
    /\ ~effectPending
    /\ ~SearchDisabled(SearchState)
    /\ Len(requests) < MaxInFlight
    /\ LET s == searchBusRoutes(SearchState)
       IN  /\ isLoadingRoute' = s.isLoadingRoute
           /\ routeResults' = s.routeResults
           /\ requests' = s.requests
    /\ resetInFlight' = FALSE
    /\ UNCHANGED << mounted, map, showRoutePanel, startLocation, endLocation,
                    activeRouteHandlers, clickMode, startCoords, endCoords, startMarker,
                    endMarker, markerVars, routeEngineVars, pickVars, calls,
                    initVars, showInfoPanel, fitRequests, lifeVars, viewVars, serverVars,
                    hovered, geoVars,
                    listVars >>

RemoveAt(q, i) == SubSeq(q, 1, i - 1) \o SubSeq(q, i + 1, Len(q))

\* a render of every successful response, the empty one included
RenderSearchResultAlways(e, live, tracked, routes) ==
    displayRoutesOnMap(e, live, tracked, routes)

\* if (routes.length > 0) displayRoutesOnMap(routes)
RenderSearchResult(e, live, tracked, routes) ==
    IF Len(routes) > 0 THEN displayRoutesOnMap(e, live, tracked, routes) ELSE e

\* the padding of the fitBounds call
FitPadding == 50

\* map.current.fitBounds([[sw.lng, sw.lat], [ne.lng, ne.lat]], { padding: 50 })
fitBounds(bounds) ==
    [ box |-> << << bounds.southwest.lng, bounds.southwest.lat >>,
                 << bounds.northeast.lng, bounds.northeast.lat >> >>,
      padding |-> FitPadding ]

\* a fit of every route that carries bounds
FitEveryResult(live, routes) ==
    IF live
    THEN LET withBounds == SelectSeq(routes, LAMBDA route : route.bounds.present)
         IN  [i \in 1..Len(withBounds) |-> fitBounds(withBounds[i].bounds)]
    ELSE <<>>

\* if (routes.length > 0) { ... if (routes[0].bounds) { if (map.current) fitBounds } }
FitSearchResult(live, routes) ==
    IF Len(routes) > 0 /\ routes[1].bounds.present /\ live
    THEN << fitBounds(routes[1].bounds) >>
    ELSE <<>>

\* searchBusRoutes after its await, response.ok with the body `routes`; the
\* state of a view that has been unmounted is not updated any more
SearchSucceeds(i, routes) ==
    /\ mounted \/ unmounted
    /\ i \in 1..Len(requests)
    /\ LET closure == requests[i]
           e == RenderSearchResult(RouteEngine, map, closure.activeRouteHandlers, routes)
       IN  /\ Len(e.layerHandlers) <= MaxHandlers
           /\ SetRouteEngine(e)
    /\ fitRequests' = FitSearchResult(map, routes)
    /\ routeResults' = IF mounted THEN routes ELSE routeResults
    /\ lastSearch' = IF mounted THEN routes ELSE lastSearch
    /\ isLoadingRoute' = (IF mounted THEN FALSE ELSE isLoadingRoute)
    /\ requests' = RemoveAt(requests, i)
    /\ SetPickBinding(FlushEffect)
    /\ effectPending' = FALSE
    /\ UNCHANGED << mounted, map, showRoutePanel, startLocation, endLocation, clickMode,
                    startCoords, endCoords, startMarker, endMarker, markerVars,
                    initVars, showInfoPanel, lifeVars, viewVars, serverVars, asyncVars >>

\* a failure path without the finally block
SearchFailsKeepsLoading(i) ==
    /\ mounted \/ unmounted
    /\ i \in 1..Len(requests)
    /\ fitRequests' = <<>>
    /\ requests' = RemoveAt(requests, i)
    /\ SetPickBinding(FlushEffect)
    /\ effectPending' = FALSE
    /\ UNCHANGED << mounted, map, showRoutePanel, startLocation, endLocation, routeResults,
                    isLoadingRoute, activeRouteHandlers, clickMode, startCoords, endCoords,
                    startMarker, endMarker, markerVars, routeEngineVars, calls, initVars,
                    showInfoPanel, lifeVars, viewVars, serverVars, asyncVars >>

\* searchBusRoutes after its await, response not ok or fetch rejected
SearchFails(i) ==
    /\ mounted \/ unmounted
    /\ i \in 1..Len(requests)
    /\ isLoadingRoute' = (IF mounted THEN FALSE ELSE isLoadingRoute)
    /\ fitRequests' = <<>>
    /\ requests' = RemoveAt(requests, i)
    /\ SetPickBinding(FlushEffect)
    /\ effectPending' = FALSE
    /\ UNCHANGED << mounted, map, showRoutePanel, startLocation, endLocation, routeResults,
                    activeRouteHandlers, clickMode, startCoords, endCoords, startMarker,
                    endMarker, markerVars, routeEngineVars, calls, initVars, showInfoPanel,
                    lifeVars, viewVars, serverVars, asyncVars >>

\* a clear button that also ends the loading state
ClearClickEndsLoading ==
    /\ mounted
    /\ showRoutePanel
    /\ ~effectPending
    /\ SetPickState([clearLocationMarkers(PickState) EXCEPT !.clickMode = "none"])
    /\ SetRouteEngine(clearRouteLayersFromMap(RouteEngine, map, activeRouteHandlers))
    /\ routeResults' = <<>>
    /\ lastSearch' = <<>>
    /\ isLoadingRoute' = FALSE
    /\ effectPending' = (clickMode # "none")
    /\ resetInFlight' = (requests # <<>>)
    /\ UNCHANGED << mounted, map, showRoutePanel, clickHandlers, cursor,
                    cleanupFn, requests, initVars, showInfoPanel, fitRequests,
                    lifeVars, viewVars, serverVars, hovered, geoVars,
                    listVars >>

\* the X button next to "Find Routes"
ClearClick ==
    /\ mounted
    /\ showRoutePanel
    /\ ~effectPending
    /\ SetPickState([clearLocationMarkers(PickState) EXCEPT !.clickMode = "none"])
    /\ SetRouteEngine(clearRouteLayersFromMap(RouteEngine, map, activeRouteHandlers))
    /\ routeResults' = <<>>
    /\ lastSearch' = <<>>
    /\ effectPending' = (clickMode # "none")
    /\ resetInFlight' = (requests # <<>>)
    /\ UNCHANGED << mounted, map, showRoutePanel, isLoadingRoute, clickHandlers, cursor,
                    cleanupFn, requests, initVars, showInfoPanel, fitRequests,
                    lifeVars, viewVars, serverVars, hovered, geoVars,
                    listVars >>

\* the X button of the route panel
CloseRoutePanel ==
    /\ mounted
    /\ showRoutePanel
    /\ ~effectPending
    /\ showRoutePanel' = FALSE
    /\ SetRouteEngine(clearRouteLayersFromMap(RouteEngine, map, activeRouteHandlers))
    /\ routeResults' = <<>>
    /\ lastSearch' = <<>>
    /\ UNCHANGED << mounted, map, startLocation, endLocation, isLoadingRoute, clickMode,
                    startCoords, endCoords, startMarker, endMarker, markerVars, pickVars,
                    requests, initVars, showInfoPanel, fitRequests,
                    lifeVars, viewVars, serverVars, asyncVars >>

\* activeRouteHandlers as the keydown listener captured it: the listener is
\* registered once, by the first render
KeydownCapturedHandlers == <<>>

\* handleKeyDown with e.key === 'Escape'
Escape ==
    /\ mounted
    /\ showInfoPanel' = FALSE
    /\ showRoutePanel' = FALSE
    /\ SetRouteEngine(clearRouteLayersFromMap(RouteEngine, map, KeydownCapturedHandlers))
    /\ routeResults' = <<>>
    /\ lastSearch' = <<>>
    /\ clickMode' = "none"
    /\ SetPickBinding(FlushEffect)
    /\ effectPending' = (clickMode # "none")
    /\ resetInFlight' = (requests # <<>>)
    /\ UNCHANGED << mounted, map, startLocation, endLocation, isLoadingRoute, startCoords,
                    endCoords, startMarker, endMarker, markerVars, requests, initVars,
                    fitRequests, lifeVars, viewVars, serverVars, hovered, geoVars,
                    listVars >>

\* map.on('mouseenter', layerId): the pointer enters a feature of a route
\* layer whose listeners are bound
LayerMouseEnter(layerId) ==
    /\ mounted
    /\ map
    /\ getLayer(RouteEngine, layerId)
    /\ Count(layerHandlers, layerId) > 0
    /\ cursor' = "pointer"
    /\ hovered' = layerId
    /\ UNCHANGED << mounted, map, hookVars, markerVars, routeEngineVars, clickHandlers,
                    effectPending, cleanupFn, requests, calls, initVars, showInfoPanel,
                    fitRequests, lifeVars, viewVars, serverVars, geoVars, listVars, resetInFlight >>

\* map.on('mouseleave', layerId): the pointer leaves the layer it had entered
LayerMouseLeave ==
    /\ mounted
    /\ map
    /\ hovered # NoLayer
    /\ Count(layerHandlers, hovered) > 0
    /\ cursor' = ""
    /\ hovered' = NoLayer
    /\ UNCHANGED << mounted, map, hookVars, markerVars, routeEngineVars, clickHandlers,
                    effectPending, cleanupFn, requests, calls, initVars, showInfoPanel,
                    fitRequests, lifeVars, viewVars, serverVars, geoVars, listVars, resetInFlight >>

\* ------------------------------------------------------------ geolocation
\* position.coords of the success callback, in 10^-5 degree
GeoPositions == { [lng |-> -63000, lat |-> 3570000] }

\* error.code: PERMISSION_DENIED, POSITION_UNAVAILABLE, TIMEOUT
PermissionDenied == 1
PositionUnavailable == 2
Timeout == 3
GeoErrorCodes == { PermissionDenied, PositionUnavailable, Timeout }

\* the message the error callback logs
GeoErrorMessage(code) ==
    CASE code = PermissionDenied -> "Location permission denied. Please enable location access."
      [] code = PositionUnavailable -> "Location information is unavailable."
      [] code = Timeout -> "Location request timed out."
      [] OTHER -> "Unable to get your location."

\* the zoom of the flyTo of the success callback
FlyZoom == 15

\* a flyTo without the test of the handle
flyToPositionUnguarded(live, position) ==
    << [ center |-> << position.lng, position.lat >>, zoom |-> FlyZoom ] >>

\* if (map.current) map.current.flyTo({ center: [longitude, latitude], zoom: 15 })
flyToPosition(live, position) ==
    IF live
    THEN << [ center |-> << position.lng, position.lat >>, zoom |-> FlyZoom ] >>
    ELSE <<>>

\* the geolocation button: handleGeolocation up to getCurrentPosition;
\* supported = navigator.geolocation exists
Geolocate(supported) ==
    /\ mounted
    /\ ~effectPending
    /\ ~isLocating
    /\ isLocating' = supported
    /\ geoRequests' = IF supported THEN geoRequests + 1 ELSE geoRequests
    /\ UNCHANGED << mounted, map, hookVars, markerVars, routeEngineVars, pickVars, requests,
                    calls, initVars, showInfoPanel, fitRequests, lifeVars, viewVars,
                    serverVars, hovered, flyRequests, listVars, resetInFlight >>

\* the success callback of getCurrentPosition
GeolocationSuccess(position) ==
    /\ geoRequests > 0
    /\ geoRequests' = geoRequests - 1
    /\ flyRequests' = flyToPosition(map, position)
    /\ engineView' = IF flyRequests' # <<>>
                     THEN View(FlyZoom, position.lng, position.lat) ELSE engineView
    /\ isLocating' = (IF mounted THEN FALSE ELSE isLocating)
    /\ SetPickBinding(FlushEffect)
    /\ effectPending' = FALSE
    /\ UNCHANGED << mounted, map, hookVars, markerVars, routeEngineVars, requests, calls,
                    initVars, showInfoPanel, fitRequests, lifeVars, mapInfo, serverVars,
                    hovered, listVars, resetInFlight >>

\* an error callback that leaves the flag set
GeolocationErrorKeepsLocating(code) ==
    /\ geoRequests > 0
    /\ code \in GeoErrorCodes
    /\ geoRequests' = geoRequests - 1
    /\ flyRequests' = <<>>
    /\ SetPickBinding(FlushEffect)
    /\ effectPending' = FALSE
    /\ UNCHANGED << mounted, map, hookVars, markerVars, routeEngineVars, requests, calls,
                    initVars, showInfoPanel, fitRequests, lifeVars, viewVars, serverVars,
                    hovered, listVars, isLocating, resetInFlight >>

\* the error callback of getCurrentPosition
GeolocationError(code) ==
    /\ geoRequests > 0
    /\ code \in GeoErrorCodes
    /\ geoRequests' = geoRequests - 1
    /\ flyRequests' = <<>>
    /\ isLocating' = (IF mounted THEN FALSE ELSE isLocating)
    /\ SetPickBinding(FlushEffect)
    /\ effectPending' = FALSE
    /\ UNCHANGED << mounted, map, hookVars, markerVars, routeEngineVars, requests, calls,
                    initVars, showInfoPanel, fitRequests, lifeVars, viewVars, serverVars,
                    hovered, listVars, resetInFlight >>

\* ------------------------------------------------------------- the server
\* insertMarkerSchema.parse: title, latitude and longitude are required
ParsesAsInsert(body) ==
    /\ body.title.k = "value"
    /\ body.latitude.k = "value"
    /\ body.longitude.k = "value"
    /\ body.description.k # "wrong"
    /\ body.color.k # "wrong"

\* insertMarkerSchema.partial().parse: every field is optional
ParsesAsPartial(body) ==
    /\ body.title.k # "wrong"
    /\ body.latitude.k # "wrong"
    /\ body.longitude.k # "wrong"
    /\ body.description.k # "wrong"
    /\ body.color.k # "wrong"

\* the rows of db.select().from(markers).orderBy(markers.createdAt)
RECURSIVE OrderByCreatedAt(_)
OrderByCreatedAt(rows) ==
    IF rows = {} THEN <<>>
    ELSE LET first == CHOOSE r \in rows : \A q \in rows : r.createdAt <= q.createdAt
         IN  <<first>> \o OrderByCreatedAt(rows \ {first})

\* DatabaseStorage.getMarkers
getMarkers(rows) == OrderByCreatedAt(rows)

\* DatabaseStorage.getMarker: the row, or undefined
getMarker(rows, id) ==
    IF \E r \in rows : r.id = id THEN CHOOSE r \in rows : r.id = id ELSE NoRow

Database == [ store |-> store, nextId |-> nextId, now |-> now, row |-> NoRow, rowCount |-> 0 ]

\* DatabaseStorage.createMarker: insert ... values ... returning
createMarker(db, insertMarker) ==
    LET row == [ id |-> db.nextId,
                 title |-> insertMarker.title.v,
                 description |-> insertMarker.description,
                 latitude |-> float4(insertMarker.latitude.v),
                 longitude |-> float4(insertMarker.longitude.v),
                 color |-> IF insertMarker.color.k = "value" THEN insertMarker.color.v
                           ELSE DefaultColor,
                 createdAt |-> db.now ]
    IN  [db EXCEPT !.store = @ \cup {row}, !.nextId = @ + 1, !.now = @ + 1, !.row = row,
                   !.rowCount = 1]

\* the row with the fields of updateData set
SetFields(r, updateData) ==
    [r EXCEPT !.title = IF updateData.title.k = "value" THEN updateData.title.v ELSE @,
              !.description = IF updateData.description.k = "value"
                              THEN updateData.description ELSE @,
              !.latitude = IF updateData.latitude.k = "value"
                           THEN float4(updateData.latitude.v) ELSE @,
              !.longitude = IF updateData.longitude.k = "value"
                            THEN float4(updateData.longitude.v) ELSE @,
              !.color = IF updateData.color.k = "value" THEN updateData.color.v ELSE @]

\* an update that inserts the row when the id is not stored
updateMarkerUpsert(db, id, updateData) ==
    LET old == IF \E r \in db.store : r.id = id THEN getMarker(db.store, id)
               ELSE [NoRow EXCEPT !.id = id]
        row == SetFields(old, updateData)
    IN  [db EXCEPT !.store = (@ \ {old}) \cup {row}, !.row = row, !.rowCount = 1]

\* DatabaseStorage.updateMarker: update ... set ... where id ... returning
updateMarker(db, id, updateData) ==
    IF \E r \in db.store : r.id = id
    THEN LET old == getMarker(db.store, id)
             row == SetFields(old, updateData)
         IN  [db EXCEPT !.store = (@ \ {old}) \cup {row}, !.row = row, !.rowCount = 1]
    ELSE [db EXCEPT !.row = NoRow, !.rowCount = 0]

\* a delete that reports success whatever the row count
deleteMarkerAlwaysTrue(db, id) ==
    [db EXCEPT !.store = { r \in @ : r.id # id }, !.rowCount = 1]

\* DatabaseStorage.deleteMarker: (result.rowCount ?? 0) > 0
deleteMarker(db, id) ==
    [db EXCEPT !.store = { r \in @ : r.id # id },
               !.rowCount = Cardinality({ r \in db.store : r.id = id })]

SetDatabase(db) ==
    /\ store' = db.store
    /\ nextId' = db.nextId
    /\ now' = db.now

\* the hooks, the refs and the engine: what a request to the server leaves alone
clientVars ==
    << mounted, map, hookVars, markerVars, routeEngineVars, pickVars, requests, calls,
       initVars, showInfoPanel, fitRequests, lifeVars, viewVars, asyncVars >>

\* GET /api/markers
GetMarkers(dbUp) ==
    /\ response' = IF dbUp THEN Reply(200, "", FALSE, NoRow, getMarkers(store), <<>>)
                   ELSE ReplyError(500, "Failed to fetch markers", FALSE)
    /\ UNCHANGED << store, nextId, now, clientVars >>

\* GET /api/markers/:id
GetMarker(id, dbUp) ==
    /\ response' = IF ~dbUp THEN ReplyError(500, "Failed to fetch marker", FALSE)
                   ELSE IF getMarker(store, id) = NoRow
                   THEN ReplyError(404, "Marker not found", FALSE)
                   ELSE Reply(200, "", FALSE, getMarker(store, id), <<>>, <<>>)
    /\ UNCHANGED << store, nextId, now, clientVars >>

\* a handler that stores the body before it is parsed
postMarkerUnparsed(db, body, dbUp) ==
    IF ~dbUp THEN [db |-> db, reply |-> ReplyError(500, "Failed to create marker", FALSE)]
    ELSE LET db1 == createMarker(db, body)
         IN  IF ~ParsesAsInsert(body)
             THEN [db |-> db1, reply |-> ReplyError(400, "Invalid marker data", TRUE)]
             ELSE [db |-> db1, reply |-> Reply(201, "", FALSE, db1.row, <<>>, <<>>)]

\* the handler of POST /api/markers
postMarker(db, body, dbUp) ==
    IF ~ParsesAsInsert(body)
    THEN [db |-> db, reply |-> ReplyError(400, "Invalid marker data", TRUE)]
    ELSE IF ~dbUp
    THEN [db |-> db, reply |-> ReplyError(500, "Failed to create marker", FALSE)]
    ELSE LET db1 == createMarker(db, body)
         IN  [db |-> db1, reply |-> Reply(201, "", FALSE, db1.row, <<>>, <<>>)]

\* POST /api/markers
PostMarker(body, dbUp) ==
    /\ nextId <= MaxStored
    /\ LET r == postMarker(Database, body, dbUp)
       IN  /\ SetDatabase(r.db)
           /\ response' = r.reply
    /\ UNCHANGED clientVars

\* the handler of PUT /api/markers/:id
putMarker(db, id, body, dbUp) ==
    IF ~ParsesAsPartial(body)
    THEN [db |-> db, reply |-> ReplyError(400, "Invalid marker data", TRUE)]
    ELSE IF ~dbUp
    THEN [db |-> db, reply |-> ReplyError(500, "Failed to update marker", FALSE)]
    ELSE LET db1 == updateMarker(db, id, body)
         IN  IF db1.row = NoRow
             THEN [db |-> db1, reply |-> ReplyError(404, "Marker not found", FALSE)]
             ELSE [db |-> db1, reply |-> Reply(200, "", FALSE, db1.row, <<>>, <<>>)]

\* PUT /api/markers/:id
PutMarker(id, body, dbUp) ==
    /\ LET r == putMarker(Database, id, body, dbUp)
       IN  /\ SetDatabase(r.db)
           /\ response' = r.reply
    /\ UNCHANGED clientVars

\* the handler of DELETE /api/markers/:id
removeMarker(db, id, dbUp) ==
    IF ~dbUp
    THEN [db |-> db, reply |-> ReplyError(500, "Failed to delete marker", FALSE)]
    ELSE LET db1 == deleteMarker(db, id)
         IN  IF ~(db1.rowCount > 0)
             THEN [db |-> db1, reply |-> ReplyError(404, "Marker not found", FALSE)]
             ELSE [db |-> db1, reply |-> Reply(204, "", FALSE, NoRow, <<>>, <<>>)]

\* DELETE /api/markers/:id
DeleteMarker(id, dbUp) ==
    /\ LET r == removeMarker(Database, id, dbUp)
       IN  /\ SetDatabase(r.db)
           /\ response' = r.reply
    /\ UNCHANGED clientVars

\* bodies of POST /api/routes/search; mode "" = no mode field
SearchBodies ==
    [ start : { "", "A", "B" }, end : { "", "A", "B" }, mode : { "", "driving", "flying" } ]

\* routeSearchSchema.parse: start and end of at least one character, mode of
\* the enum or absent
ParsesAsSearch(body) ==
    /\ body.start # ""
    /\ body.end # ""
    /\ body.mode \in { "", "driving", "walking", "transit", "bicycling" }

Step(instruction, towards, stop) == [instruction |-> instruction, towards |-> towards, stop |-> stop]

\* sample routes that name the start of the search as well
SampleRoutesEchoStart(searchData) ==
    << [ duration |-> "45 min", distance |-> "12.5 km",
         steps |-> << Step("Walk to Arret Universite", searchData.start, ""),
                      Step("Take Bus Line 6 towards ", searchData.end, searchData.end) >>,
         bounds |-> MockBounds ] >>

\* mockRoutes as the handler builds it: the steps that take a line name the
\* end of the search, as the direction and as the stop
SampleRoutes(searchData) ==
    << [ duration |-> "45 min", distance |-> "12.5 km",
         steps |-> << Step("Walk to Arret Universite", "", ""),
                      Step("Take Bus Line 12 towards Centre Ville", "", "Arret Place d'Armes"),
                      Step("Transfer to Bus Line 6", "", ""),
                      Step("Take Bus Line 6 towards ", searchData.end, searchData.end),
                      Step("Walk to destination", "", "") >>,
         bounds |-> MockBounds ],
       [ duration |-> "52 min", distance |-> "14.2 km",
         steps |-> << Step("Walk to Arret Faculte", "", ""),
                      Step("Take Tram Line 1 towards Senia", "", "Arret Republique"),
                      Step("Transfer to Bus Line 8", "", ""),
                      Step("Take Bus Line 8 towards ", searchData.end, searchData.end),
                      Step("Walk to destination", "", "") >>,
         bounds |-> MockBounds ] >>

\* POST /api/routes/search
RouteSearch(body) ==
    /\ response' = IF ParsesAsSearch(body)
                   THEN Reply(200, "", FALSE, NoRow, <<>>, SampleRoutes(body))
                   ELSE ReplyError(400, "Invalid search data", TRUE)
    /\ UNCHANGED << store, nextId, now, clientVars >>

\* ------------------------------------------------- the view's marker list
\* the database before any marker is created
EmptyDatabase == [ store |-> {}, nextId |-> 1, now |-> 1, row |-> NoRow, rowCount |-> 0 ]

\* bodies of GET /api/markers: no marker, or one marker created from a body
\* that parses
MarkerLists ==
    { <<>> } \cup
    { << createMarker(EmptyDatabase, body).row >> : body \in { b \in PostBodies : ParsesAsInsert(b) } }

\* new mapboxgl.Marker().setLngLat([longitude, latitude]): the engine throws
\* on a latitude outside [-90, 90] (degrees in units of 10^-7)
setLngLatThrows(marker) == marker.latitude < -900000000 \/ marker.latitude > 900000000

\* markersData.forEach: a marker per row while the handle is live, up to the
\* first row the engine throws on
RECURSIVE AddStaticMarkers(_, _, _)
AddStaticMarkers(ms, live, markersData) ==
    IF markersData = <<>> \/ ~live THEN ms
    ELSE LET marker == Head(markersData)
         IN  IF setLngLatThrows(marker) THEN ms
             ELSE AddStaticMarkers(
                      Append(ms, [ color |-> marker.color,
                                   lngLat |-> << marker.longitude, marker.latitude >>,
                                   popup |-> << marker.title, marker.description >> ]),
                      live, Tail(markersData))

\* a forEach that adds the markers whatever the handle
RenderMarkerListUnguarded(ms, live, markersData) == AddStaticMarkers(ms, TRUE, markersData)

\* the rows that loadMarkers adds to the map
RenderMarkerList(ms, live, markersData) == AddStaticMarkers(ms, live, markersData)

\* loadMarkers after its await: response.ok and a body that decodes
MarkersLoadOk(markersData) ==
    /\ markerFetches > 0
    /\ markerFetches' = markerFetches - 1
    /\ markers' = IF mounted THEN markersData ELSE markers
    /\ markersLoaded' = (IF mounted THEN TRUE ELSE markersLoaded)
    /\ staticMarkers' = RenderMarkerList(staticMarkers, map, markersData)
    /\ SetPickBinding(FlushEffect)
    /\ effectPending' = FALSE
    /\ UNCHANGED << mounted, map, hookVars, markerVars, routeEngineVars, requests, calls,
                    isLoading, mapError, fallbackShown, loaded, markerRequests,
                    showInfoPanel, fitRequests, lifeVars, viewVars, serverVars, hovered,
                    geoVars, resetInFlight >>

\* loadMarkers after its await: a response that is not ok
MarkersLoadNotOk ==
    /\ markerFetches > 0
    /\ markerFetches' = markerFetches - 1
    /\ UNCHANGED << mounted, map, hookVars, markerVars, routeEngineVars, pickVars, requests,
                    calls, initVars, showInfoPanel, fitRequests, lifeVars, viewVars,
                    serverVars, hovered, geoVars, markers, staticMarkers, resetInFlight >>

\* a failure that is taken for an error of the map
MarkersLoadThrowsAsMapError ==
    /\ markerFetches > 0
    /\ markerFetches' = markerFetches - 1
    /\ markersLoaded' = (IF mounted THEN TRUE ELSE markersLoaded)
    /\ mapError' = IF mounted THEN InitFailed ELSE mapError
    /\ SetPickBinding(FlushEffect)
    /\ effectPending' = FALSE
    /\ UNCHANGED << mounted, map, hookVars, markerVars, routeEngineVars, requests, calls,
                    isLoading, fallbackShown, loaded, markerRequests,
                    showInfoPanel, fitRequests, lifeVars, viewVars, serverVars, hovered,
                    geoVars, markers, staticMarkers, resetInFlight >>

\* loadMarkers' catch: the fetch rejects, or the body does not decode
MarkersLoadThrows ==
    /\ markerFetches > 0
    /\ markerFetches' = markerFetches - 1
    /\ markersLoaded' = (IF mounted THEN TRUE ELSE markersLoaded)
    /\ SetPickBinding(FlushEffect)
    /\ effectPending' = FALSE
    /\ UNCHANGED << mounted, map, hookVars, markerVars, routeEngineVars, requests, calls,
                    isLoading, mapError, fallbackShown, loaded, markerRequests,
                    showInfoPanel, fitRequests, lifeVars, viewVars, serverVars, hovered,
                    geoVars, markers, staticMarkers, resetInFlight >>

\* the server alone: the marker store and the route search
NextServer ==
    \/ \E dbUp \in BOOLEAN : GetMarkers(dbUp)
    \/ \E id \in RequestIds, dbUp \in BOOLEAN : GetMarker(id, dbUp)
    \/ \E body \in PostBodies, dbUp \in BOOLEAN : PostMarker(body, dbUp)
    \/ \E id \in RequestIds, body \in PutBodies, dbUp \in BOOLEAN : PutMarker(id, body, dbUp)
    \/ \E id \in RequestIds, dbUp \in BOOLEAN : DeleteMarker(id, dbUp)
    \/ \E body \in SearchBodies : RouteSearch(body)

Next ==
    \/ \E webgl \in BOOLEAN, accessToken \in BOOLEAN, constructs \in BOOLEAN :
          Mount(webgl, accessToken, constructs)
    \/ Unmount
    \/ MapLoad
    \/ MapErrorEvent
    \/ \E view \in Views : CameraMoves(view)
    \/ MoveEnd
    \/ ZoomEnd
    \/ ResetView
    \/ ToggleInfoPanel
    \/ RunEffect
    \/ ToggleRoutePanel
    \/ ToggleStartPick
    \/ ToggleEndPick
    \/ \E value \in TypedTexts : EditStartLocation(value)
    \/ \E value \in TypedTexts : EditEndLocation(value)
    \/ \E lngLat \in ClickPoints : MapClick(lngLat)
    \/ SearchClick
    \/ \E i \in 1..Len(requests), routes \in Responses : SearchSucceeds(i, routes)
    \/ \E i \in 1..Len(requests) : SearchFails(i)
    \/ ClearClick
    \/ CloseRoutePanel
    \/ Escape
    \/ NextServer

\* every handler of the view; the properties are checked under SpecPick,
\* SpecRoutes and SpecInit, which split the picking machine, the route
\* session and the initialisation
Spec == Init /\ [][Next]_vars

\* the picking machine alone: no route search is started
NextPick ==
    \/ \E webgl \in BOOLEAN, accessToken \in BOOLEAN, constructs \in BOOLEAN :
          Mount(webgl, accessToken, constructs)
    \/ RunEffect
    \/ ToggleInfoPanel
    \/ ToggleRoutePanel
    \/ ToggleStartPick
    \/ ToggleEndPick
    \/ \E lngLat \in ClickPoints : MapClick(lngLat)
    \/ ClearClick
    \/ CloseRoutePanel
    \/ Escape

SpecPick == Init /\ [][NextPick]_vars

\* the route session alone: the endpoints are typed, never picked
NextRoutes ==
    \/ \E webgl \in BOOLEAN, accessToken \in BOOLEAN, constructs \in BOOLEAN :
          Mount(webgl, accessToken, constructs)
    \/ ToggleRoutePanel
    \/ \E value \in TypedTexts : EditStartLocation(value)
    \/ \E value \in TypedTexts : EditEndLocation(value)
    \/ SearchClick
    \/ \E i \in 1..Len(requests), routes \in Responses : SearchSucceeds(i, routes)
    \/ \E i \in 1..Len(requests) : SearchFails(i)
    \/ ClearClick
    \/ CloseRoutePanel
    \/ Escape

SpecRoutes == Init /\ [][NextRoutes]_vars

\* initialisation and what follows it without a route search: the engine's
\* 'load' and 'error' events, the panels, the picking machine
NextInit ==
    \/ \E webgl \in BOOLEAN, accessToken \in BOOLEAN, constructs \in BOOLEAN :
          Mount(webgl, accessToken, constructs)
    \/ Unmount
    \/ MapLoad
    \/ MapErrorEvent
    \/ RunEffect
    \/ ToggleInfoPanel
    \/ ToggleRoutePanel
    \/ ToggleStartPick
    \/ ToggleEndPick
    \/ \E lngLat \in ClickPoints : MapClick(lngLat)
    \/ Escape

SpecInit == Init /\ [][NextInit]_vars

\* the viewport: the camera and its events, next to the picking of the start
\* endpoint, a search answered with the endpoint's sample routes, the reset
\* and the keyboard
NextView ==
    \/ \E webgl \in BOOLEAN, accessToken \in BOOLEAN, constructs \in BOOLEAN :
          Mount(webgl, accessToken, constructs)
    \/ MapLoad
    \/ \E view \in Views : CameraMoves(view)
    \/ MoveEnd
    \/ ZoomEnd
    \/ ResetView
    \/ RunEffect
    \/ ToggleRoutePanel
    \/ ToggleStartPick
    \/ \E lngLat \in ClickPoints : MapClick(lngLat)
    \/ EditEndLocation(Text("A"))
    \/ SearchClick
    \/ \E i \in 1..Len(requests) : SearchSucceeds(i, mockRoutes)
    \/ \E i \in 1..Len(requests) : SearchFails(i)
    \/ ClearClick
    \/ Escape

SpecView == Init /\ [][NextView]_vars

\* the fetch of a route search settles: it resolves with a response or it
\* rejects
SearchSettles ==
    \E i \in 1..Len(requests) :
        \/ SearchFails(i)
        \/ \E routes \in Responses : SearchSucceeds(i, routes)

\* the searches of a route session: typed endpoints, responses of one route
\* or the sample routes, the resets
NextLoading ==
    \/ \E webgl \in BOOLEAN, accessToken \in BOOLEAN, constructs \in BOOLEAN :
          Mount(webgl, accessToken, constructs)
    \/ ToggleRoutePanel
    \/ \E value \in TypedTexts : EditStartLocation(value)
    \/ \E value \in TypedTexts : EditEndLocation(value)
    \/ SearchClick
    \/ \E i \in 1..Len(requests), route \in RouteShapes : SearchSucceeds(i, <<route>>)
    \/ \E i \in 1..Len(requests) : SearchSucceeds(i, mockRoutes)
    \/ \E i \in 1..Len(requests) : SearchFails(i)
    \/ ClearClick
    \/ Escape

\* the searches with every fetch settling in the end
SpecLoading == Init /\ [][NextLoading]_vars /\ WF_vars(SearchSettles)

\* the endpoints: picked on the map, typed into the inputs, reset
NextEndpoints ==
    \/ \E webgl \in BOOLEAN, accessToken \in BOOLEAN, constructs \in BOOLEAN :
          Mount(webgl, accessToken, constructs)
    \/ RunEffect
    \/ ToggleRoutePanel
    \/ ToggleStartPick
    \/ ToggleEndPick
    \/ \E value \in TypedTexts : EditStartLocation(value)
    \/ \E value \in TypedTexts : EditEndLocation(value)
    \/ \E lngLat \in ClickPoints : MapClick(lngLat)
    \/ ClearClick
    \/ CloseRoutePanel
    \/ Escape

SpecEndpoints == Init /\ [][NextEndpoints]_vars

\* the pointer over rendered routes while the start endpoint is picked
NextHover ==
    \/ \E webgl \in BOOLEAN, accessToken \in BOOLEAN, constructs \in BOOLEAN :
          Mount(webgl, accessToken, constructs)
    \/ RunEffect
    \/ ToggleRoutePanel
    \/ ToggleStartPick
    \/ EditStartLocation(Text("A"))
    \/ EditEndLocation(Text("A"))
    \/ SearchClick
    \/ \E i \in 1..Len(requests), route \in RouteShapes : SearchSucceeds(i, <<route>>)
    \/ \E layerId \in 0..(MaxRoutes - 1) : LayerMouseEnter(layerId)
    \/ LayerMouseLeave
    \/ \E lngLat \in ClickPoints : MapClick(lngLat)

SpecHover == Init /\ [][NextHover]_vars

\* the asynchronous callbacks of a mount: the marker list, a geolocation
\* request and a route search, each of which may be answered after the
\* unmount
NextAsync ==
    \/ \E webgl \in BOOLEAN, accessToken \in BOOLEAN, constructs \in BOOLEAN :
          Mount(webgl, accessToken, constructs)
    \/ Unmount
    \/ MapLoad
    \/ MoveEnd
    \/ MarkersLoadNotOk
    \/ MarkersLoadThrows
    \/ \E markersData \in MarkerLists : MarkersLoadOk(markersData)
    \/ \E supported \in BOOLEAN : Geolocate(supported)
    \/ \E position \in GeoPositions : GeolocationSuccess(position)
    \/ \E code \in GeoErrorCodes : GeolocationError(code)
    \/ ToggleRoutePanel
    \/ EditStartLocation(Text("A"))
    \/ EditEndLocation(Text("A"))
    \/ SearchClick
    \/ \E i \in 1..Len(requests), route \in RouteShapes : SearchSucceeds(i, <<route>>)
    \/ \E i \in 1..Len(requests) : SearchFails(i)

SpecAsync == Init /\ [][NextAsync]_vars

SpecServer == Init /\ [][NextServer]_vars

\* ------------------------------------------------------------ properties
\* the [clickMode] effect has run for the committed mode, on a live engine
Settled == mounted /\ map /\ ~effectPending

\* C1: the number of handleLocationClick listeners bound to the engine's
\* click event is 0 or 1 in every reachable state, and whenever the effect is
\* about to run, its cleanup leaves none bound before the new one is bound.
C1_AtMostOnePickHandler ==
    /\ Len(clickHandlers) <= 1
    /\ effectPending => EffectCleanup(PickBinding, map).clickHandlers = <<>>

\* the effect has run after a direct switch: the end listener is the only one
C1_Witness ==
    /\ Settled
    /\ clickMode = "end"
    /\ Len(clickHandlers) = 1
    /\ clickHandlers[1].clickMode = "end"
    /\ startMarker # null

\* C2: once the effect has run for the current mode on a live engine, a
\* picking listener is bound if and only if clickMode is not 'none'.
C2_BoundIffPicking ==
    Settled => (clickHandlers # <<>> <=> clickMode # "none")

\* a pick was completed and the effect has run: nothing is bound in 'none';
C2_Witness ==
    /\ Settled
    /\ clickMode = "none"
    /\ endMarker # null
    /\ clickHandlers = <<>>

\* C3: the mode is always one of none/start/end; in every reachable state a
\* press of an endpoint's 'Set on map' would move the mode to 'none' when
\* that endpoint is being picked and to that endpoint otherwise, never to the
\* mode it is in; and every step a press takes moves the mode that way.
C3_Toggle ==
    /\ [] /\ clickMode \in {"none", "start", "end"}
          /\ \A endpoint \in {"start", "end"} :
                /\ TogglePick(clickMode, endpoint) # clickMode
                /\ clickMode = endpoint => TogglePick(clickMode, endpoint) = "none"
                /\ clickMode # endpoint => TogglePick(clickMode, endpoint) = endpoint
    /\ [][ /\ ToggleStartPick => clickMode' = IF clickMode = "start" THEN "none" ELSE "start"
           /\ ToggleEndPick => clickMode' = IF clickMode = "end" THEN "none" ELSE "end" ]_vars

\* the end endpoint was requested while the start endpoint was being picked
C3_Witness ==
    /\ clickMode = "end"
    /\ effectPending
    /\ Len(clickHandlers) = 1
    /\ clickHandlers[1].clickMode = "start"

\* the text is the pair (lat, lng), each the multiple of 10^-4 nearest to the
\* clicked value
IsFourDecimalText(t, lngLat) ==
    /\ t.s = "latlng"
    /\ 10 * t.lat - lngLat.lat \in -5..5
    /\ 10 * t.lng - lngLat.lng \in -5..5

C5_OneMarkerPerKind ==
    /\ Cardinality({ m \in engineMarkers : m.color = GreenHex }) <= 1
    /\ Cardinality({ m \in engineMarkers : m.color = RedHex }) <= 1
    /\ (map /\ startMarker # null) =>
           Cardinality({ m \in engineMarkers : m.color = GreenHex }) = 1

\* the overlays on the engine: a layer with the geometry of its source
Overlays(ls, ss) ==
    { [index |-> ls[i].id, geometry |-> ss[j].geometry] :
        <<i, j>> \in { x \in (1..Len(ls)) \X (1..Len(ss)) : ls[x[1]].source = ss[x[2]].id } }

\* one overlay per route of the sequence, at the route's index
OverlaysOf(routes) ==
    { [index |-> i - 1, geometry |-> routes[i].geometry] : i \in 1..Len(routes) }

\* C6: on a live engine, rendering the routes R2 of a successful search over
\* whatever an earlier rendering left registers exactly |R2| layers and |R2|
\* sources, and every source carries the geometry of its route of R2.
C6_RenderReplaces ==
    [][ \A i \in 1..Len(requests), routes \in Responses :
          (SearchSucceeds(i, routes) /\ map /\ routes # <<>>) =>
              /\ Len(layers') = Len(routes)
              /\ Len(sources') = Len(routes)
              /\ \A k \in 1..Len(sources') :
                    sources'[k].geometry = routes[sources'[k].id + 1].geometry ]_vars

\* C7: on a live engine, a successful search that returns the backend's two
\* routes leaves exactly 2 route layers, and one that returns n routes
\* leaves exactly n.
C7_OverlayPerRoute ==
    [][ \A i \in 1..Len(requests), routes \in Responses \cup {mockRoutes} :
          (SearchSucceeds(i, routes) /\ map) => Len(layers') = Len(routes) ]_vars

\* C8: on a live engine, the overlays rendered are exactly the routes of the
\* most recent successful search, and none after a reset or before a search.
C8_OverlaysAreLastSearch ==
    (mounted /\ map) => Overlays(layers, sources) = OverlaysOf(lastSearch)

Rank(op) ==
    CASE op = "off" -> 1
      [] op = "removeLayer" -> 2
      [] op = "removeSource" -> 3
      [] OTHER -> 4

\* C9: whenever route overlays are cleared or replaced, the listeners of the
\* previous layers are detached, then the layers are removed, then the
\* sources; no source is removed while a layer uses it and no layer is
\* removed while its listeners are still bound.
C9_ClearOrder ==
    /\ \A i \in 1..Len(calls), j \in 1..Len(calls) :
          i < j => Rank(calls[i].op) <= Rank(calls[j].op)
    /\ \A i \in 1..Len(calls) : calls[i].op = "removeSource" => ~calls[i].flag
    /\ \A i \in 1..Len(calls) : calls[i].op = "removeLayer" => ~calls[i].flag

Distinct(q) == \A i \in 1..Len(q), j \in 1..Len(q) : i # j => q[i] # q[j]

NoSharedIds(ls, ss) ==
    /\ Distinct([i \in 1..Len(ls) |-> ls[i].id])
    /\ Distinct([i \in 1..Len(ss) |-> ss[i].id])
    /\ Distinct([i \in 1..Len(ls) |-> ls[i].source])

\* C10: in every reachable state the layer ids and the source ids on the
\* engine are pairwise distinct and no two layers draw the same source; and
\* adding the overlay of any index to the engine as it is, the add of an id
\* already present is skipped, never duplicated.
C10_DistinctIds ==
    /\ NoSharedIds(layers, sources)
    /\ \A route \in RouteShapes, routeIndex \in 0..(MaxRoutes - 1) :
          LET e == AddRouteOverlay(RouteEngine, route, routeIndex)
          IN  NoSharedIds(e.layers, e.sources)

\* two overlays are rendered, with the ids of index 0 and 1
C10_Witness ==
    /\ Len(layers) = 2
    /\ Len(sources) = 2
    /\ Ids(layers) = {LayerId(0), LayerId(1)}
    /\ Ids(sources) = {SourceId(0), SourceId(1)}

\* C11: clearing the endpoint selections is idempotent: from every reachable
\* state, clearing twice in a row (the second call by the next render's
\* closure, or by the same closure with the marker references it captured)
\* leaves the same coordinates, texts, marker references and engine markers
\* as clearing once.
C11_ClearIdempotent ==
    LET once == clearLocationMarkers(PickState)
        twice == clearLocationMarkers(once)
        sameClosure == clearLocationMarkers([once EXCEPT !.startMarker = startMarker,
                                                         !.endMarker = endMarker])
    IN  /\ twice = once
        /\ sameClosure = once
        /\ once.startCoords = NoCoords /\ once.endCoords = NoCoords
        /\ once.startLocation = Text("") /\ once.endLocation = Text("")
        /\ once.startMarker = null /\ once.endMarker = null

\* a clear has acted on a state that held both endpoint markers
C11_Witness ==
    /\ mounted /\ map
    /\ nextMarker = 3
    /\ engineMarkers = {}
    /\ startMarker = null /\ endMarker = null
    /\ startLocation = Text("") /\ endLocation = Text("")

Blank(t) == t.s = "" \/ t.s = " "

\* C12: a search invoked while an endpoint text is empty or only whitespace
\* fails validation: no request is issued and the loading flag and the stored
\* results are as they were; and every step that issues a request is taken
\* with both texts non-blank and leaves the route overlays as they were.
C12_BlankSearchIsNoOp ==
    /\ [](\A a \in TypedTexts \cup {startLocation}, b \in TypedTexts \cup {endLocation} :
            Blank(a) \/ Blank(b) =>
                LET s == [SearchState EXCEPT !.startLocation = a, !.endLocation = b]
                IN  searchBusRoutes(s) = s)
    /\ [][Len(requests') > Len(requests) =>
              /\ ~Blank(startLocation) /\ ~Blank(endLocation)
              /\ layers' = layers /\ sources' = sources /\ layerHandlers' = layerHandlers]_vars

\* results are stored and an endpoint text is only whitespace
C12_Witness ==
    /\ showRoutePanel
    /\ startLocation = Text(" ")
    /\ endLocation = Text("A")
    /\ routeResults # <<>>
    /\ ~isLoadingRoute

\* C13: when a search response is successful, with an engine: if the first
\* result carries bounds the engine is asked exactly once to fit the box
\* [[sw.lng, sw.lat], [ne.lng, ne.lat]] of that first result with padding 50;
\* if the response is empty or its first result has no bounds, no fit is
\* requested.  Without an engine no fit is requested.
C13_FitFirstBounds ==
    [][\A i \in 1..Len(requests) :
          SearchSucceeds(i, routeResults') =>
              LET routes == routeResults'
              IN  fitRequests' =
                      IF map /\ Len(routes) > 0 /\ routes[1].bounds.present
                      THEN << [ box |-> << << routes[1].bounds.southwest.lng,
                                              routes[1].bounds.southwest.lat >>,
                                           << routes[1].bounds.northeast.lng,
                                              routes[1].bounds.northeast.lat >> >>,
                                padding |-> 50 ] >>
                      ELSE <<>>]_vars

\* a response of two routes with different bounds has been fitted
C13_Witness ==
    /\ map
    /\ Len(fitRequests) = 1
    /\ Len(routeResults) = 2
    /\ routeResults[1].bounds.present /\ routeResults[2].bounds.present
    /\ routeResults[1].bounds # routeResults[2].bounds

\* C14: when the response of a search is a failure or a successful empty
\* body (a request leaves flight and no result is stored), the loading flag
\* is cleared and the layers, sources and layer listeners on the engine are
\* left as they were.
C14_FailureKeepsOverlays ==
    [][(Len(requests') < Len(requests) /\ routeResults' = <<>>) =>
          /\ isLoadingRoute' = FALSE
          /\ layers' = layers
          /\ sources' = sources
          /\ layerHandlers' = layerHandlers]_vars

\* an empty body has been answered while overlays of an earlier search stay
C14_Witness ==
    /\ layers # <<>>
    /\ sources # <<>>
    /\ requests = <<>>
    /\ routeResults = <<>>
    /\ lastSearch = <<>>
    /\ ~isLoadingRoute

\* C15: a failed search leaves the prior results in place: after the failure
\* routeResults is the sequence that was stored before the search was started.
C15_FailureKeepsResults ==
    [][\A i \in 1..Len(requests) :
          SearchFails(i) => routeResults' = requests[i].routeResults]_vars

\* C16: the clear button, from any state, clears both endpoint selections
\* (coordinates and texts), leaves no endpoint marker on the engine, removes
\* all route overlays, empties the stored results and returns the mode to
\* 'none'.
C16_ResetClearsAll ==
    [][ClearClick =>
          /\ startCoords' = NoCoords /\ endCoords' = NoCoords
          /\ startLocation' = Text("") /\ endLocation' = Text("")
          /\ startMarker' = null /\ endMarker' = null
          /\ engineMarkers' = {}
          /\ layers' = <<>> /\ sources' = <<>>
          /\ routeResults' = <<>>
          /\ clickMode' = "none"]_vars

\* C17: Escape performs the full reset: the info panel and the route panel
\* are closed and, as after the clear button, both endpoint selections are
\* cleared, no endpoint marker is left on the engine, the route overlays and
\* the stored results are gone and the mode is 'none'.
C17_EscapeIsFullReset ==
    [][Escape =>
          /\ showInfoPanel' = FALSE /\ showRoutePanel' = FALSE
          /\ startCoords' = NoCoords /\ endCoords' = NoCoords
          /\ startLocation' = Text("") /\ endLocation' = Text("")
          /\ startMarker' = null /\ endMarker' = null
          /\ engineMarkers' = {}
          /\ layers' = <<>> /\ sources' = <<>>
          /\ routeResults' = <<>>
          /\ clickMode' = "none"]_vars

\* C18 as stated: a second search can be started while a first is still in
\* flight: whenever a request is in flight, the route panel is open and both
\* endpoint texts are non-blank, the search button is enabled.
C18_SecondSearchCanStart ==
    (/\ mounted /\ showRoutePanel /\ ~effectPending
     /\ requests # <<>>
     /\ ~Blank(startLocation) /\ ~Blank(endLocation))
        => ~SearchDisabled(SearchState)

\* C18, amended: while a search is in flight the search button is disabled,
\* so at most one request is in flight; searchBusRoutes itself cancels
\* nothing (invoked with a request in flight it would add a second one and
\* keep the first); the response that arrives is the only one, it sets the
\* result sequence and, when it is not empty and the engine is live, the
\* overlays on the engine are those of its routes that carry a geometry.
C18_OneSearchInFlight ==
    /\ [](/\ Len(requests) <= 1
          /\ requests # <<>> => (isLoadingRoute /\ SearchDisabled(SearchState))
          /\ (~Blank(startLocation) /\ ~Blank(endLocation)) =>
                LET s == searchBusRoutes(SearchState)
                IN  /\ Len(s.requests) = Len(requests) + 1
                    /\ SubSeq(s.requests, 1, Len(requests)) = requests)
    /\ [][\A i \in 1..Len(requests) :
              SearchSucceeds(i, routeResults') =>
                  /\ requests' = <<>>
                  /\ (map /\ routeResults' # <<>>) =>
                        Overlays(layers', sources') =
                            { o \in OverlaysOf(routeResults') : o.geometry # 0 }]_vars

\* a search is in flight, after an earlier one was answered, and the button
\* would be enabled but for the loading flag
C18_Witness ==
    /\ showRoutePanel
    /\ Len(requests) = 1
    /\ lastSearch # <<>>
    /\ layers # <<>>
    /\ ~Blank(startLocation) /\ ~Blank(endLocation)
    /\ isLoadingRoute

\* C19: a mount without the access credential fails with an error state
\* (mapError set, loading cleared) and constructs no engine; this is terminal
\* for the mount: a mounted view without an engine never gets one.
C19_NoCredentialIsTerminalError ==
    /\ [][\A webgl \in BOOLEAN, constructs \in BOOLEAN :
              Mount(webgl, FALSE, constructs) =>
                  /\ mapError' # NoError
                  /\ isLoading' = FALSE
                  /\ map' = FALSE]_vars
    /\ [][(mounted /\ ~map) => ~map']_vars

\* C20: a mount with neither WebGL nor the credential sets an error state
\* before any marker list request and engages the fallback display; and on a
\* mount whose initialisation failed the marker list is never requested.
C20_FailureBeforeMarkerLoad ==
    /\ [][\A constructs \in BOOLEAN :
              Mount(FALSE, FALSE, constructs) =>
                  /\ mapError' # NoError
                  /\ fallbackShown'
                  /\ markerRequests' = 0]_vars
    /\ []((mounted /\ ~map) => (markerRequests = 0 /\ ~loaded))

\* C21: an engine is constructed at most once per mount and at most one
\* engine instance is live, the one map.current holds; after unmount the
\* engine has been removed and the handle is null.
C21_OneEnginePerMount ==
    /\ constructions <= 1
    /\ liveEngines <= 1
    /\ map <=> liveEngines = 1
    /\ unmounted => (~map /\ liveEngines = 0)

\* a view whose engine was constructed and loaded has been unmounted
C21_Witness ==
    /\ unmounted
    /\ constructions = 1
    /\ loaded

\* C22: the viewport snapshot is derived from the engine: after the load
\* event and after every moveend or zoomend event is handled, mapInfo is the
\* engine's zoom and center; and while an engine exists no other step
\* (picking, search, reset, keyboard) changes mapInfo.
C22_SnapshotIsDerived ==
    /\ [](map => updateMapInfo(mapInfo, map, engineView) = engineView)
    /\ [][(MapLoad \/ MoveEnd \/ ZoomEnd) => mapInfo' = engineView']_vars
    /\ [][(map /\ mapInfo' # mapInfo) => (MapLoad \/ MoveEnd \/ ZoomEnd)]_vars

\* the snapshot shows a camera that was zoomed in and panned, with results
\* stored and the start endpoint picked
C22_Witness ==
    /\ map
    /\ mapInfo = engineView
    /\ mapInfo.zoom # DefaultView.zoom
    /\ mapInfo.center # DefaultView.center
    /\ routeResults # <<>>
    /\ startMarker # null

\* C23: while the view is mounted without an engine, every overlay
\* operation (placing the start or the end marker, clearing the endpoint
\* markers, rendering routes, clearing routes) leaves the client state as it
\* is.
C23_NoEngineNoOp ==
    (mounted /\ ~map) =>
        /\ \A lngLat \in ClickPoints :
              /\ addStartMarker(PickState, map, startMarker, lngLat) = PickState
              /\ addEndMarker(PickState, map, endMarker, lngLat) = PickState
        /\ clearLocationMarkers(PickState) = PickState
        /\ \A routes \in Responses :
              displayRoutesOnMap(RouteEngine, map, activeRouteHandlers, routes) = RouteEngine
        /\ clearRouteLayersFromMap(RouteEngine, map, activeRouteHandlers) = RouteEngine

\* C24: DELETE /api/markers/:id for an id that is not stored answers 404 and
\* leaves the stored markers as they are; for a stored id it answers 204 and
\* removes that marker and no other.
C24_DeleteUnknownOrKnown ==
    [][\A id \in RequestIds :
          DeleteMarker(id, TRUE) =>
              IF \E r \in store : r.id = id
              THEN /\ response'.status = 204
                   /\ store' = store \ { getMarker(store, id) }
                   /\ Cardinality(store') = Cardinality(store) - 1
              ELSE /\ response'.status = 404
                   /\ store' = store]_vars

\* a marker was deleted and another one is still stored
C24_Witness ==
    /\ response.status = 204
    /\ Cardinality(store) = 1
    /\ nextId = 3

\* C25: after a create succeeds, the list contains a marker whose title,
\* description, latitude, longitude and color are those of the input, whose
\* id and createdAt the store assigned, and the marker stays listed until it
\* is deleted.
C25_RoundTrip ==
    /\ [][\A body \in PostBodies :
            (PostMarker(body, TRUE) /\ response'.status = 201) =>
                \E i \in 1..Len(getMarkers(store')) :
                    LET m == getMarkers(store')[i]
                    IN  /\ m.title = body.title.v
                        /\ m.description = body.description
                        /\ m.latitude = body.latitude.v
                        /\ m.longitude = body.longitude.v
                        /\ body.color.k = "value" => m.color = body.color.v
                        /\ m.id = nextId
                        /\ m.createdAt = now
                        /\ m = response'.marker
                        /\ m \notin store]_vars
    /\ [][\A r \in store :
            (\A q \in store' : q.id # r.id) => DeleteMarker(r.id, TRUE)]_vars

\* a latitude within [-90, 90] and a longitude within [-180, 180], in units of
\* 10^-7 degree
LatitudeInRange(latitude) == -900000000 <= latitude /\ latitude <= 900000000
LongitudeInRange(longitude) == -1800000000 <= longitude /\ longitude <= 1800000000
OutOfRange(body) ==
    \/ body.latitude.k = "value" /\ ~LatitudeInRange(body.latitude.v)
    \/ body.longitude.k = "value" /\ ~LongitudeInRange(body.longitude.v)

\* C26: a create or an update whose latitude is outside [-90, 90] or whose
\* longitude is outside [-180, 180] is answered 400 and does not reach the
\* store; no stored marker has coordinates out of range.
C26_RangeValidated ==
    /\ [](\A r \in store : LatitudeInRange(r.latitude) /\ LongitudeInRange(r.longitude))
    /\ [][\A body \in PostBodies :
            (PostMarker(body, TRUE) /\ OutOfRange(body)) =>
                (response'.status = 400 /\ store' = store)]_vars
    /\ [][\A id \in RequestIds, body \in PutBodies :
            (PutMarker(id, body, TRUE) /\ OutOfRange(body)) =>
                (response'.status = 400 /\ store' = store)]_vars

\* the answer to a request for a marker that is not stored
NotFound == ReplyError(404, "Marker not found", FALSE)

\* C27: a get, an update or a delete of an id that is not stored is answered
\* 404 with the body {error: "Marker not found"} and leaves the store as it
\* is; an update parses its body first, so a body that does not parse is
\* answered 400 even though the id is not stored.
C27_MissingIdIs404 ==
    [][\A id \in RequestIds :
          (\A r \in store : r.id # id) =>
              /\ GetMarker(id, TRUE) => (response' = NotFound /\ store' = store)
              /\ DeleteMarker(id, TRUE) => (response' = NotFound /\ store' = store)
              /\ \A body \in PutBodies :
                    PutMarker(id, body, TRUE) =>
                        /\ store' = store
                        /\ IF ParsesAsPartial(body)
                           THEN response' = NotFound
                           ELSE response' = ReplyError(400, "Invalid marker data", TRUE)]_vars

\* a request for an id that is not stored was answered while another marker
\* is stored
C27_Witness ==
    /\ response = NotFound
    /\ store # {}

\* C28: POST /api/markers with a body that violates the marker schema is
\* answered 400 with {error, details} and creates no marker; with a valid
\* body it is answered 201 with the marker that was created.
C28_PostValidates ==
    [][\A body \in PostBodies :
          /\ \A dbUp \in BOOLEAN :
                (PostMarker(body, dbUp) /\ ~ParsesAsInsert(body)) =>
                    /\ response' = ReplyError(400, "Invalid marker data", TRUE)
                    /\ UNCHANGED << store, nextId, now >>
          /\ (PostMarker(body, TRUE) /\ ParsesAsInsert(body)) =>
                /\ response'.status = 201
                /\ response'.marker \notin store
                /\ store' = store \cup { response'.marker }
                /\ response'.marker.title = body.title.v]_vars

\* a created marker was answered with 201 while an earlier one is stored
C28_Witness ==
    /\ response.status = 201
    /\ response.marker \in store
    /\ Cardinality(store) = 2

\* the itineraries without the text a step takes from the search
Skeleton(routes) ==
    [ i \in 1..Len(routes) |->
        [ duration |-> routes[i].duration,
          distance |-> routes[i].distance,
          bounds |-> routes[i].bounds,
          steps |-> [ j \in 1..Len(routes[i].steps) |->
                        [ instruction |-> routes[i].steps[j].instruction,
                          stop |-> IF routes[i].steps[j].towards # "" THEN ""
                                   ELSE routes[i].steps[j].stop ] ] ] ]

\* C29 as stated: the answer to a valid route search is the answer to every
\* other valid route search, whatever their start, end and mode.
C29_SameForEveryInput ==
    response.routes # <<>> =>
        \A other \in SearchBodies :
            ParsesAsSearch(other) => response.routes = SampleRoutes(other)

\* C29 amended: the answers to two valid route searches have the same number
\* of routes, durations, distances, bounds and steps, and differ at most in
\* the end of the search that the last line of each route names; searches
\* with the same end get the same answer whatever their start and mode.
C29_SameUpToEnd ==
    response.routes # <<>> =>
        /\ response.status = 200
        /\ \E body \in SearchBodies :
              /\ ParsesAsSearch(body)
              /\ response.routes = SampleRoutes(body)
              /\ \A other \in SearchBodies :
                    ParsesAsSearch(other) =>
                        /\ Skeleton(response.routes) = Skeleton(SampleRoutes(other))
                        /\ other.end = body.end => response.routes = SampleRoutes(other)

\* a search towards "B" was answered with the two sample routes
C29_Witness ==
    /\ response.status = 200
    /\ Len(response.routes) = 2
    /\ response.routes[1].steps[4].stop = "B"
    /\ response.routes[2].steps[4].towards = "B"

\* C30: whenever a map click fires a bound picking handler, the mode the
\* handler captured is the current clickMode, so a click while the start is
\* picked leaves the end endpoint alone and a click while the end is picked
\* leaves the start endpoint alone, also right after a switch from picking
\* the start to picking the end.
C30_HandlerModeIsCurrent ==
    [][\A lngLat \in ClickPoints :
          MapClick(lngLat) =>
              /\ \A i \in 1..Len(clickHandlers) : clickHandlers[i].clickMode = clickMode
              /\ clickMode = "start" => UNCHANGED << endCoords, endLocation, endMarker >>
              /\ clickMode = "end" => UNCHANGED << startCoords, startLocation, startMarker >>]_vars

\* C31: a map click delivered while the mode is 'none' and the [clickMode]
\* effect has run changes nothing: the endpoint coordinates, texts and
\* markers, the mode, the route overlays and the results stay as they are
\* (the only listener the click reaches is the one that logs it).
C31_IdleClickIsNoOp ==
    (mounted /\ map /\ clickMode = "none" /\ ~effectPending) =>
        \A lngLat \in ClickPoints :
            FireClick(PickState, map, clickHandlers, lngLat) = PickState

\* both endpoints were picked, the mode is back to 'none' and the effect
\* has run
C31_Witness ==
    /\ mounted /\ map
    /\ clickMode = "none"
    /\ ~effectPending
    /\ startMarker # null
    /\ endMarker # null
    /\ showRoutePanel

\* C32: once the [clickMode] effect has run, the canvas cursor is the
\* crosshair while the mode is 'start' or 'end' and is not the crosshair
\* while the mode is 'none', also after the pointer has entered and left a
\* rendered route layer during a pick.
C32_CursorFollowsMode ==
    (mounted /\ map /\ ~effectPending) =>
        /\ clickMode \in { "start", "end" } => cursor = "crosshair"
        /\ clickMode = "none" => cursor # "crosshair"

\* C33: isLoadingRoute is true exactly while a route search awaits its
\* response: a search that is issued sets it, and every search that is issued
\* clears it in the end, whether its response is ok, not ok, or the fetch
\* rejects.
C33_LoadingWhileInFlight ==
    /\ [](isLoadingRoute <=> requests # <<>>)
    /\ [][SearchClick => (isLoadingRoute' /\ Len(requests') = Len(requests) + 1)]_vars
    /\ [][\A i \in 1..Len(requests) :
            (SearchFails(i) \/ SearchSucceeds(i, routeResults')) => ~isLoadingRoute']_vars
    /\ (isLoadingRoute ~> ~isLoadingRoute)

\* a search was answered with routes and a later one is awaiting its response
C33_Witness ==
    /\ isLoadingRoute
    /\ Len(requests) = 1
    /\ lastSearch # <<>>

\* C34: a geolocation request that is started sets isLocating, and the flag
\* is cleared by the one callback that answers it, success or error; the
\* camera is moved (flyTo, zoom 15) only by the success callback and only
\* while the engine handle is live; an error of any category changes nothing
\* else.
C34_GeolocationSettles ==
    /\ [](geoRequests <= 1 /\ (mounted => (isLocating <=> geoRequests = 1)))
    /\ [][Geolocate(TRUE) => (isLocating' /\ geoRequests' = geoRequests + 1)]_vars
    /\ [][\A position \in GeoPositions :
            GeolocationSuccess(position) =>
                /\ mounted => ~isLocating'
                /\ geoRequests' = geoRequests - 1
                /\ flyRequests' =
                       IF map
                       THEN << [ center |-> << position.lng, position.lat >>, zoom |-> 15 ] >>
                       ELSE <<>>
                /\ ~map => engineView' = engineView]_vars
    /\ [][\A code \in GeoErrorCodes :
            GeolocationError(code) =>
                /\ mounted => ~isLocating'
                /\ geoRequests' = geoRequests - 1
                /\ flyRequests' = <<>>
                /\ UNCHANGED << hookVars, markerVars, routeEngineVars, initVars, viewVars,
                                listVars, showInfoPanel, fitRequests, requests >>]_vars
    /\ [][(flyRequests' # flyRequests /\ flyRequests' # <<>>) =>
              (map /\ \E position \in GeoPositions : GeolocationSuccess(position))]_vars

\* the success callback has moved the camera of a live engine
C34_Witness ==
    /\ mounted /\ map
    /\ flyRequests # <<>>
    /\ ~isLocating
    /\ geoRequests = 0
    /\ engineView.zoom = FlyZoom

\* C35: the marker list is requested once per mount, by the handler of the
\* engine's 'load' event and not before; when the request fails (the fetch
\* rejects, the body does not decode, or the response is not ok) the markers
\* hook stays empty, no marker is added to the map and mapError is not set.
C35_MarkerListOnceAndDegrades ==
    /\ [](markerRequests <= 1 /\ (markerRequests = 1 <=> loaded))
    /\ [][markerRequests' # markerRequests =>
              (MapLoad /\ ~loaded /\ markerRequests' = 1 /\ markerFetches' = 1)]_vars
    /\ [][(MarkersLoadThrows \/ MarkersLoadNotOk) =>
              /\ markers' = <<>>
              /\ staticMarkers' = <<>>
              /\ mapError' = mapError
              /\ isLoading' = isLoading
              /\ markerFetches' = 0]_vars
    /\ [][MarkersLoadThrows => (mounted => markersLoaded')]_vars

\* the one request of the mount has been answered and no marker is listed
C35_Witness ==
    /\ mounted /\ map /\ loaded
    /\ markerRequests = 1
    /\ markerFetches = 0
    /\ markersLoaded
    /\ markers = <<>>
    /\ staticMarkers = <<>>
    /\ mapError = NoError

\* C36: with a live engine, the coordinates of an endpoint are present
\* exactly when a marker of that endpoint is held, for the start and for the
\* end, whatever picks, re-picks, typed texts, clears and Escapes came before.
C36_CoordsIffMarker ==
    (mounted /\ map) =>
        /\ startCoords.set <=> startMarker # null
        /\ endCoords.set <=> endMarker # null

\* the start was picked and then its text was typed over; the end was picked
\* twice
C36_Witness ==
    /\ mounted /\ map
    /\ startCoords.set /\ startMarker # null
    /\ startLocation = Text("A")
    /\ endCoords.set /\ endMarker # null
    /\ nextMarker = 4

\* C37: the listeners of the route layers do not leak: every layer id has at
\* most one click / mouseenter / mouseleave triple bound, and no triple is
\* bound for a layer id that is not in the style, also after Escape followed
\* by a search that creates the same layer ids again.
C37_NoLeakedLayerHandlers ==
    (mounted /\ map) =>
        \A i \in 1..Len(layerHandlers) :
            /\ Count(layerHandlers, layerHandlers[i]) <= 1
            /\ getLayer(RouteEngine, layerHandlers[i])

\* C38: a reset is final for superseded work: when Escape or the clear
\* button was used while a route search was in flight and no new search has
\* been started since, the result sequence is empty and the style holds no
\* route overlay, also after the response of that search has arrived.
C38_ResetIsFinal ==
    (mounted /\ map /\ resetInFlight) =>
        /\ routeResults = <<>>
        /\ layers = <<>>
        /\ sources = <<>>

\* C39: after unmount (engine removed, handle nulled) no late asynchronous
\* callback invokes an engine operation: a route-search response adds no
\* source and no layer and requests no fitBounds, a marker-list response adds
\* no marker, a geolocation result requests no flyTo, and the view of the
\* removed engine does not move.
C39_NoEngineCallAfterUnmount ==
    /\ [](unmounted => (~mounted /\ ~map /\ layers = <<>> /\ sources = <<>>
                            /\ staticMarkers = <<>> /\ engineMarkers = {}))
    /\ [][unmounted =>
            \A i \in 1..Len(requests), route \in RouteShapes :
                SearchSucceeds(i, << route >>) =>
                    (fitRequests' = <<>> /\ layers' = <<>> /\ sources' = <<>>
                        /\ layerHandlers' = <<>>)]_vars
    /\ [][unmounted =>
            \A markersData \in MarkerLists :
                MarkersLoadOk(markersData) => staticMarkers' = <<>>]_vars
    /\ [][unmounted =>
            \A position \in GeoPositions :
                GeolocationSuccess(position) =>
                    (flyRequests' = <<>> /\ engineView' = engineView)]_vars

\* the view was unmounted with a search and a geolocation request pending, and
\* both were answered afterwards (their flags were never cleared)
C39_Witness ==
    /\ unmounted /\ ~mounted /\ ~map
    /\ isLoadingRoute /\ requests = <<>>
    /\ isLocating /\ geoRequests = 0
    /\ markerRequests = 1 /\ markerFetches = 0

\* C40: through the view at most one route-search request is in flight: the
\* search button is disabled for as long as the loading flag is set, the flag
\* is set for as long as a request is in flight, so a press of the button
\* finds no request in flight and leaves exactly one, and nothing but a press
\* of the button adds a request.
C40_OneRequestThroughView ==
    /\ [](mounted =>
            /\ isLoadingRoute => SearchDisabled(SearchState)
            /\ requests # <<>> => isLoadingRoute
            /\ Len(requests) <= 1)
    /\ [][SearchClick => (requests = <<>> /\ Len(requests') = 1)]_vars
    /\ [][Len(requests') > Len(requests) => SearchClick]_vars

\* a search is in flight and was reset by Escape or the clear button; the
\* panel is open again and the texts would enable the button but for the
\* loading flag
C40_Witness ==
    /\ mounted /\ showRoutePanel
    /\ Len(requests) = 1 /\ isLoadingRoute
    /\ resetInFlight
    /\ ~Blank(startLocation) /\ ~Blank(endLocation)
    /\ SearchDisabled(SearchState)

====
